---- MODULE Spec2Model ----
(***************************************************************************)
(* Trip planner backend: trip service, RSVP engine, in-memory repositories *)
(* and the HTTP idempotency layer, as a state machine.                     *)
(*                                                                         *)
(* Every request is a process slot.  A slot moves through the storage      *)
(* calls of its handler one call at a time (each call of the in-memory     *)
(* repositories is atomic under the repository mutex); everything between  *)
(* two storage calls is computed on the slot's local copy of the trip.     *)
(***************************************************************************)
EXTENDS Integers, Sequences, FiniteSets, TLC

VARIABLES byID, trips, rsvps, idem, clock, pc, req, loc, resp

vars == <<byID, trips, rsvps, idem, clock, pc, req, loc, resp>>

\* ---------------------------------------------------------------- bounds
MaxCap == 2
MaxClock == 1

Members == {"m1", "m2", "m3"}
Ghost == "m9"
TripIDs == {"t1", "t2"}
Procs == {"p1", "p2"}
Keys == {"k1", "k2"}

\* ------------------------------------------------------- nil encodings
NilStr == "<nil>"
NilInt == -1

StatusDraft == "DRAFT"
StatusPublished == "PUBLISHED"
StatusCanceled == "CANCELED"
StatusAbsent == "ABSENT"

DraftVisibilityPrivate == "PRIVATE"
DraftVisibilityPublic == "PUBLIC"

StatusYes == "YES"
StatusNo == "NO"
StatusUnset == "UNSET"
\* The zero value of rsvprepo.RSVP, returned by Get with ErrNotFound.
NoRSVP == [status |-> "NONE", updatedAt |-> 0]

NilLoc == [isNil |-> TRUE, label |-> "", address |-> NilStr]

\* The zero value of triprepo.Trip, returned by GetByID with ErrNotFound.
NoTrip ==
  [id |-> "", status |-> StatusAbsent, name |-> NilStr, description |-> NilStr,
   creatorMemberID |-> "", organizerMemberIDs |-> <<>>, draftVisibility |-> "",
   startDate |-> NilInt, endDate |-> NilInt,
   capacityRigs |-> NilInt, attendingRigs |-> NilInt,
   difficultyText |-> NilStr, meetingLocation |-> NilLoc,
   commsRequirementsText |-> NilStr, recommendedRequirementsText |-> NilStr,
   artifacts |-> <<>>, createdAt |-> 0, updatedAt |-> 0]

\* ------------------------------------------------------------- helpers
Range(s) == {s[i] : i \in DOMAIN s}

\* The removal loop with the comparison dropped: it skips the first element.
SeqWithoutFirst(s, x) == IF s = <<>> THEN <<>> ELSE Tail(s)

RECURSIVE SeqWithout(_, _)
SeqWithout(s, x) ==
  IF s = <<>> THEN <<>>
  ELSE IF Head(s) = x THEN SeqWithout(Tail(s), x)
       ELSE <<Head(s)>> \o SeqWithout(Tail(s), x)

\* Member IDs in ascending order (the model's display name is the ID).
MemberRank(m) == CASE m = "m1" -> 1 [] m = "m2" -> 2 [] m = "m3" -> 3 [] OTHER -> 9

RECURSIVE SortedMembers(_)
SortedMembers(S) ==
  IF S = {} THEN <<>>
  ELSE LET lo == CHOOSE m \in S : \A n \in S : MemberRank(m) <= MemberRank(n)
       IN <<lo>> \o SortedMembers(S \ {lo})

\* strings.TrimSpace(s) != "" on the model's strings: " " is the blank string.
Blank == " "
TrimSpace(s) ==
  CASE s = Blank -> ""
    [] s = " a@x.org " -> "a@x.org"
    [] OTHER -> s

\* strings.ToLower on the model's strings; strings.EqualFold(a, b) is
\* ToLower(a) = ToLower(b) on them.
ToLower(s) == IF s = "A@x.org" THEN "a@x.org" ELSE s

\* domain.NormalizeHumanName on the model's names.
NormalizeHumanName(s) ==
  CASE s = Blank -> ""
    [] s = " Snow  Run " -> "Snow Run"
    [] OTHER -> s

\* ------------------------------------------------------------ members
\* memberrepo.Member, and the zero Member where the repository has none.
NoMember == [id |-> "", subject |-> "", displayName |-> "", email |-> ""]
MemberFound(m) == m.id # ""

\* The repository of the trip specifications: every ID in Members is bound
\* to the subject and the email address written like the ID.
Provisioned ==
  [id \in Members |-> [id |-> id, subject |-> id, displayName |-> id, email |-> id]]

\* A repository whose GetBySubject finds no member.
GetBySubjectNothing(ms, subject) == NoMember

\* memory Repo.GetBySubject: idBySub holds the ID of the one member created
\* with the subject.
GetBySubject(ms, subject) ==
  IF \E id \in DOMAIN ms : MemberFound(ms[id]) /\ ms[id].subject = subject
  THEN ms[CHOOSE id \in DOMAIN ms : MemberFound(ms[id]) /\ ms[id].subject = subject]
  ELSE NoMember

\* ------------------------------------------------------- trips.Error
NoErr == [status |-> 0, code |-> "", missing |-> <<>>]
Err(st, code) == [status |-> st, code |-> code, missing |-> <<>>]
ErrTripNotFound == Err(404, "TRIP_NOT_FOUND")

\* -------------------------------------------------- visibility rules
isOrganizerIDInSlice(ids, target) == \E i \in DOMAIN ids : ids[i] = target

isOrganizer(t, caller) == isOrganizerIDInSlice(t.organizerMemberIDs, caller)

\* The visibility rule with a draft shown to its organizers whatever its
\* draft visibility.
isTripVisibleToOrganizers(t, caller) ==
  CASE t.status \in {StatusPublished, StatusCanceled} -> TRUE
    [] t.status = StatusDraft -> isOrganizer(t, caller)
    [] OTHER -> FALSE

isTripVisibleToCaller(t, caller) ==
  CASE t.status \in {StatusPublished, StatusCanceled} -> TRUE
    [] t.status = StatusDraft ->
         CASE t.draftVisibility = DraftVisibilityPublic ->
                \E i \in DOMAIN t.organizerMemberIDs : t.organizerMemberIDs[i] = caller
           [] t.draftVisibility = DraftVisibilityPrivate -> t.creatorMemberID = caller
           [] OTHER -> FALSE
    [] OTHER -> FALSE

isDraftVisibleToCaller(t, caller) ==
  IF t.status # StatusDraft THEN FALSE
  ELSE CASE t.draftVisibility = DraftVisibilityPublic -> isOrganizer(t, caller)
         [] t.draftVisibility = DraftVisibilityPrivate -> t.creatorMemberID = caller
         [] OTHER -> FALSE

hasText(p) == p # NilStr /\ TrimSpace(p) # ""

\* requiredPublishFieldsMissing without the check of the end date.
requiredPublishFieldsMissingNoEndDate(t) ==
  (IF ~hasText(t.name) THEN <<"name">> ELSE <<>>)
  \o (IF ~hasText(t.description) THEN <<"description">> ELSE <<>>)
  \o (IF t.startDate = NilInt THEN <<"startDate">> ELSE <<>>)
  \o (IF t.capacityRigs = NilInt \/ t.capacityRigs < 1 THEN <<"capacityRigs">> ELSE <<>>)
  \o (IF ~hasText(t.difficultyText) THEN <<"difficultyText">> ELSE <<>>)
  \o (IF t.meetingLocation.isNil \/ TrimSpace(t.meetingLocation.label) = ""
      THEN <<"meetingLocation">> ELSE <<>>)
  \o (IF ~hasText(t.commsRequirementsText) THEN <<"commsRequirementsText">> ELSE <<>>)
  \o (IF ~hasText(t.recommendedRequirementsText)
      THEN <<"recommendedRequirementsText">> ELSE <<>>)
  \o (IF Len(t.organizerMemberIDs) = 0 THEN <<"organizers">> ELSE <<>>)

requiredPublishFieldsMissing(t) ==
  (IF ~hasText(t.name) THEN <<"name">> ELSE <<>>)
  \o (IF ~hasText(t.description) THEN <<"description">> ELSE <<>>)
  \o (IF t.startDate = NilInt THEN <<"startDate">> ELSE <<>>)
  \o (IF t.endDate = NilInt THEN <<"endDate">> ELSE <<>>)
  \o (IF t.capacityRigs = NilInt \/ t.capacityRigs < 1 THEN <<"capacityRigs">> ELSE <<>>)
  \o (IF ~hasText(t.difficultyText) THEN <<"difficultyText">> ELSE <<>>)
  \o (IF t.meetingLocation.isNil \/ TrimSpace(t.meetingLocation.label) = ""
      THEN <<"meetingLocation">> ELSE <<>>)
  \o (IF ~hasText(t.commsRequirementsText) THEN <<"commsRequirementsText">> ELSE <<>>)
  \o (IF ~hasText(t.recommendedRequirementsText)
      THEN <<"recommendedRequirementsText">> ELSE <<>>)
  \o (IF Len(t.organizerMemberIDs) = 0 THEN <<"organizers">> ELSE <<>>)

\* ------------------------------------------------- Optional[T] (tri-state)
UnspecifiedStr == [specified |-> FALSE, isNull |-> FALSE, value |-> ""]
NullStr == [specified |-> TRUE, isNull |-> TRUE, value |-> ""]
SomeStr(v) == [specified |-> TRUE, isNull |-> FALSE, value |-> v]
UnspecifiedInt == [specified |-> FALSE, isNull |-> FALSE, value |-> 0]
NullInt == [specified |-> TRUE, isNull |-> TRUE, value |-> 0]
SomeInt(v) == [specified |-> TRUE, isNull |-> FALSE, value |-> v]
UnspecifiedIDs == [specified |-> FALSE, isNull |-> FALSE, value |-> <<>>]
NullIDs == [specified |-> TRUE, isNull |-> TRUE, value |-> <<>>]
SomeIDs(v) == [specified |-> TRUE, isNull |-> FALSE, value |-> v]
LocationPatch(label, address) == [label |-> label, address |-> address]
UnspecifiedLoc ==
  [specified |-> FALSE, isNull |-> FALSE, value |-> LocationPatch(UnspecifiedStr, UnspecifiedStr)]
NullLoc ==
  [specified |-> TRUE, isNull |-> TRUE, value |-> LocationPatch(UnspecifiedStr, UnspecifiedStr)]
SomeLoc(v) == [specified |-> TRUE, isNull |-> FALSE, value |-> v]

\* UpdateTripInput with nothing specified.
EmptyPatch ==
  [name |-> UnspecifiedStr, description |-> UnspecifiedStr,
   startDate |-> UnspecifiedInt, endDate |-> UnspecifiedInt,
   capacityRigs |-> UnspecifiedInt, difficultyText |-> UnspecifiedStr,
   meetingLocation |-> UnspecifiedLoc,
   commsRequirementsText |-> UnspecifiedStr,
   recommendedRequirementsText |-> UnspecifiedStr,
   artifactIDs |-> UnspecifiedIDs]

\* ------------------------------------------------------ repositories
\* memory/triprepo Repo.GetByID: the stored trip, or the zero trip when absent.
GetByID(ts, id) == IF id \in TripIDs THEN ts[id] ELSE NoTrip
TripFound(t) == t.status # StatusAbsent

\* memory/triprepo Repo.Save: full-object overwrite, no check of what is stored.
Save(ts, t) == [ts EXCEPT ![t.id] = t]

\* The store's rule with a draft listed for its organizers whatever its draft
\* visibility.
isDraftVisibleToAnyOrganizer(t, caller) ==
  \E i \in DOMAIN t.organizerMemberIDs : t.organizerMemberIDs[i] = caller

\* memory/triprepo isDraftVisibleTo: the store's own draft visibility rule.
isDraftVisibleTo(t, caller) ==
  CASE t.draftVisibility = DraftVisibilityPublic ->
         \E i \in DOMAIN t.organizerMemberIDs : t.organizerMemberIDs[i] = caller
    [] t.draftVisibility = DraftVisibilityPrivate -> t.creatorMemberID = caller
    [] OTHER -> FALSE

\* memory/triprepo sortTrips: by start date, undated trips last, then by
\* creation time, then by ID.
RECURSIVE sortTrips(_)
sortTrips(S) ==
  IF S = {} THEN <<>>
  ELSE LET idRank(id) == IF id = "t1" THEN 1 ELSE 2
           before(a, b) ==
             IF a.startDate # NilInt /\ b.startDate # NilInt
             THEN IF a.startDate # b.startDate THEN a.startDate < b.startDate
                  ELSE IF a.createdAt # b.createdAt THEN a.createdAt < b.createdAt
                  ELSE idRank(a.id) < idRank(b.id)
             ELSE IF a.startDate # NilInt /\ b.startDate = NilInt THEN TRUE
             ELSE IF a.startDate = NilInt /\ b.startDate # NilInt THEN FALSE
             ELSE IF a.createdAt # b.createdAt THEN a.createdAt < b.createdAt
             ELSE idRank(a.id) < idRank(b.id)
           lo == CHOOSE a \in S : \A b \in S \ {a} : before(a, b)
       IN <<lo>> \o sortTrips(S \ {lo})

\* memory/triprepo Repo.ListDraftsVisibleTo.
ListDraftsVisibleTo(ts, caller) ==
  sortTrips({ts[id] : id \in {i \in TripIDs :
                                 /\ TripFound(ts[i])
                                 /\ ts[i].status = StatusDraft
                                 /\ isDraftVisibleTo(ts[i], caller)}})

\* A Get that finds no record.
RsvpGetNothing(rs, tripID, memberID) == NoRSVP

\* memory/rsvprepo Repo.Get / Upsert / CountYesByTrip / ListByTrip.
RsvpGet(rs, tripID, memberID) == rs[<<tripID, memberID>>]
Upsert(rs, tripID, memberID, rec) == [rs EXCEPT ![<<tripID, memberID>>] = rec]
CountYesByTrip(rs, tripID) ==
  Cardinality({m \in Members : rs[<<tripID, m>>].status = StatusYes})
MembersWith(rs, tripID, status) == {m \in Members : rs[<<tripID, m>>].status = status}

\* ---------------------------------------------- postgres RSVP repository
\* The trigger function enforce_rsvp_rules, run before every insert or
\* update of a trip_rsvps row: the SQLSTATE it raises, "" when it lets the
\* row through.
enforce_rsvp_rules(ts, rs, tripID, memberID, response) ==
  LET t == ts[tripID]
      old == rs[<<tripID, memberID>>]
      isInsert == old = NoRSVP
      is_yes_transition == IF isInsert THEN response = StatusYes
                           ELSE old.status # StatusYes /\ response = StatusYes
      current_yes == Cardinality({m \in Members :
                                    /\ rs[<<tripID, m>>].status = StatusYes
                                    /\ ~(~isInsert /\ m = memberID)})
  IN IF ~TripFound(t) THEN "23503"
     ELSE IF t.status # StatusPublished THEN "23514"
     ELSE IF t.capacityRigs = NilInt \/ t.capacityRigs < 1 THEN "23514"
     ELSE IF is_yes_transition /\ current_yes >= t.capacityRigs THEN "23514"
     ELSE ""

\* postgres Repo.Upsert: INSERT ... ON CONFLICT DO UPDATE under the trigger,
\* which stamps the row with the database's now(). The result is the error
\* returned ("" for nil) and the rows stored afterwards.
PgUpsert(ts, rs, tripID, memberID, rec, now) ==
  LET sqlstate == enforce_rsvp_rules(ts, rs, tripID, memberID, rec.status)
  IN IF sqlstate # ""
     THEN [err |-> sqlstate, rs |-> rs]
     ELSE [err |-> "", rs |-> [rs EXCEPT ![<<tripID, memberID>>] =
                                  [status |-> rec.status, updatedAt |-> now]]]

\* ---------------------------------------------- postgres trip repository
\* A trips row has no attending_rigs column, and its draft_visibility is
\* NULL unless the trip is a draft; GetByID reads NULL as "".
draftVisibilityForDB(t) ==
  IF t.status # StatusDraft THEN ""
  ELSE IF t.draftVisibility = "" THEN DraftVisibilityPrivate
  ELSE t.draftVisibility

\* postgres Repo.GetByID: the row, with AttendingRigs counted from the YES
\* rows of a PUBLISHED trip.
PgGetByID(ts, rs, id) ==
  IF id \in TripIDs /\ TripFound(ts[id])
  THEN [ts[id] EXCEPT !.attendingRigs =
          IF ts[id].status = StatusPublished THEN CountYesByTrip(rs, id) ELSE NilInt]
  ELSE NoTrip

\* The trigger function trips_enforce_transitions, run before every update
\* of a trips row: the SQLSTATE it raises, "" when it lets the row through.
trips_enforce_transitions(old, new, rs) ==
  IF old.status = StatusCanceled /\ new.status # StatusCanceled THEN "23514"
  ELSE IF /\ old.status = StatusPublished
          /\ new.capacityRigs # NilInt
          /\ new.capacityRigs # old.capacityRigs
          /\ new.capacityRigs < CountYesByTrip(rs, old.id)
       THEN "23514"
  ELSE IF /\ old.status # StatusPublished
          /\ new.status = StatusPublished
          /\ \/ old.status # StatusDraft
             \/ old.draftVisibility # DraftVisibilityPublic
             \/ requiredPublishFieldsMissing(
                  [new EXCEPT !.organizerMemberIDs = old.organizerMemberIDs]) # <<>>
       THEN "23514"
  ELSE ""

\* postgres Repo.Save: one transaction that finds the row, refuses another
\* creator, updates the row under the trigger and replaces the organizer
\* and artifact rows. The result is the error returned ("" for nil) and the
\* rows stored afterwards.
PgSave(ts, rs, t) ==
  LET old == ts[t.id]
      sqlstate == trips_enforce_transitions(old, t, rs)
      row == [t EXCEPT !.attendingRigs = NilInt,
                       !.draftVisibility = draftVisibilityForDB(t),
                       !.createdAt = old.createdAt]
  IN IF ~TripFound(old) THEN [err |-> "ErrNotFound", ts |-> ts]
     ELSE IF t.creatorMemberID # "" /\ t.creatorMemberID # old.creatorMemberID
     THEN [err |-> "trip creator is immutable", ts |-> ts]
     ELSE IF sqlstate # "" THEN [err |-> sqlstate, ts |-> ts]
     ELSE [err |-> "", ts |-> [ts EXCEPT ![t.id] = row]]

\* ------------------------------------------------------- projections
NoSummary ==
  [isNil |-> TRUE, capacityRigs |-> NilInt, attendingRigs |-> 0,
   attendingMembers |-> <<>>, notAttendingMembers |-> <<>>]

tripRSVPSummaryForTrip(t, rs) ==
  LET yesMembers == SortedMembers(MembersWith(rs, t.id, StatusYes))
      noMembers == SortedMembers(MembersWith(rs, t.id, StatusNo))
  IN [isNil |-> FALSE, capacityRigs |-> t.capacityRigs,
      attendingRigs |-> Len(yesMembers),
      attendingMembers |-> yesMembers, notAttendingMembers |-> noMembers]

toDomainSummary(t) ==
  [id |-> t.id, name |-> t.name, status |-> t.status,
   startDate |-> t.startDate, endDate |-> t.endDate,
   capacityRigs |-> t.capacityRigs,
   attendingRigs |-> IF t.status = StatusPublished THEN t.attendingRigs ELSE NilInt,
   draftVisibility |-> IF t.status = StatusDraft THEN t.draftVisibility ELSE NilStr]

toDomainDetails(t) ==
  [id |-> t.id, name |-> t.name, status |-> t.status,
   startDate |-> t.startDate, endDate |-> t.endDate,
   capacityRigs |-> t.capacityRigs,
   attendingRigs |-> IF t.status = StatusPublished THEN t.attendingRigs ELSE NilInt,
   draftVisibility |-> IF t.status = StatusDraft THEN t.draftVisibility ELSE NilStr,
   description |-> t.description, difficultyText |-> t.difficultyText,
   meetingLocation |-> t.meetingLocation,
   commsRequirementsText |-> t.commsRequirementsText,
   recommendedRequirementsText |-> t.recommendedRequirementsText,
   organizers |-> <<>>, artifacts |-> <<>>,
   rsvpActionsEnabled |-> FALSE, rsvpSummary |-> NoSummary, myRSVP |-> NoRSVP]

NoDetails == toDomainDetails(NoTrip)

tripDetailsForTrip(t, rs) ==
  [toDomainDetails(t) EXCEPT
     !.organizers = t.organizerMemberIDs,
     !.artifacts = t.artifacts,
     !.rsvpActionsEnabled = (t.status = StatusPublished),
     !.rsvpSummary = IF t.status \in {StatusPublished, StatusCanceled}
                     THEN tripRSVPSummaryForTrip(t, rs) ELSE NoSummary]

\* Service.GetTripDetails adds the caller's own RSVP to the projection.
GetTripDetailsBody(t, rs, caller) ==
  [tripDetailsForTrip(t, rs) EXCEPT
     !.myRSVP = IF t.status \in {StatusPublished, StatusCanceled}
                THEN RsvpGet(rs, t.id, caller) ELSE NoRSVP]

\* Service.ListMyDraftTrips: the summaries of the drafts the store lists.
ListMyDraftTrips(ts, caller) ==
  LET out == ListDraftsVisibleTo(ts, caller)
  IN [i \in DOMAIN out |-> toDomainSummary(out[i])]

\* announcementCopyFromTrip: the lines of the copy, each line the format it
\* is printed with and the values printed; a date is printed as its day.
announcementCopyFromTrip(d) ==
  LET Line(fmt, s1, s2, n1, n2) == [fmt |-> fmt, s1 |-> s1, s2 |-> s2, n1 |-> n1, n2 |-> n2]
      text(v) == v # NilStr /\ TrimSpace(v) # ""
      name == IF text(d.name) THEN TrimSpace(d.name) ELSE "(untitled)"
      dateLine == IF d.startDate # NilInt /\ d.endDate # NilInt
                  THEN Line("Dates: %s to %s", "", "", d.startDate, d.endDate)
                  ELSE IF d.startDate # NilInt
                  THEN Line("Start: %s", "", "", d.startDate, 0)
                  ELSE Line("Dates: TBD", "", "", 0, 0)
      capLine == IF d.capacityRigs # NilInt
                 THEN <<Line("Capacity: %d rigs", "", "", d.capacityRigs, 0)>> ELSE <<>>
      loc0 == d.meetingLocation
      locLine == IF ~loc0.isNil /\ TrimSpace(loc0.label) # ""
                 THEN IF text(loc0.address)
                      THEN <<Line("Meet: %s (%s)", TrimSpace(loc0.label),
                                  TrimSpace(loc0.address), 0, 0)>>
                      ELSE <<Line("Meet: %s", TrimSpace(loc0.label), "", 0, 0)>>
                 ELSE <<>>
      desc == IF text(d.description)
              THEN <<Line("", "", "", 0, 0), Line("%s", TrimSpace(d.description), "", 0, 0)>>
              ELSE <<>>
  IN <<Line("Trip: %s", name, "", 0, 0), dateLine>> \o capLine \o locLine \o desc
       \o <<Line("", "", "", 0, 0), Line("RSVP in the app once you're ready.", "", "", 0, 0)>>

\* A response: HTTP status, error code ("" on success), and the body.
NoResp ==
  [status |-> 0, code |-> "", missing |-> <<>>, trip |-> NoDetails, rsvp |-> NoRSVP,
   list |-> <<>>, copy |-> <<>>, member |-> NoMember]
ErrResp(e) == [NoResp EXCEPT !.status = e.status, !.code = e.code, !.missing = e.missing]
TripResp(st, d) == [NoResp EXCEPT !.status = st, !.trip = d]
RsvpResp(r) == [NoResp EXCEPT !.status = 200, !.rsvp = r]

MemberResp(st, m) == [NoResp EXCEPT !.status = st, !.member = m]

\* ------------------------------------------------------ members.Service
\* Service.ensureEmailUnique over the members that repo.List returned.
ensureEmailUnique(ms, email, excludeMemberID) ==
  IF \E id \in DOMAIN ms :
       /\ MemberFound(ms[id])
       /\ ~(excludeMemberID # "" /\ id = excludeMemberID)
       /\ ToLower(ms[id].email) = ToLower(email)
  THEN Err(409, "EMAIL_ALREADY_IN_USE")
  ELSE NoErr

\* --------------------------------------- use cases, on the loaded trip
FirstErr(es) ==
  IF \E i \in DOMAIN es : es[i] # NoErr
  THEN es[CHOOSE i \in DOMAIN es : es[i] # NoErr /\ \A j \in 1..(i-1) : es[j] = NoErr]
  ELSE NoErr

applyNullableString(dst, o) ==
  IF ~o.specified THEN dst ELSE IF o.isNull THEN NilStr ELSE o.value

applyNullableInt(dst, o) ==
  IF ~o.specified THEN dst ELSE IF o.isNull THEN NilInt ELSE o.value

applyLocationPatch(existing, patch) ==
  LET cur == IF existing.isNil THEN [isNil |-> FALSE, label |-> "", address |-> NilStr]
             ELSE existing
  IN [cur EXCEPT
        !.label = IF patch.label.specified /\ ~patch.label.isNull
                  THEN patch.label.value ELSE @,
        !.address = applyNullableString(@, patch.address)]

reorderArtifactsByID(existing, ids) ==
  IF \E i \in DOMAIN ids : ids[i] \notin Range(existing)
  THEN [err |-> Err(422, "VALIDATION_ERROR"), out |-> <<>>]
  ELSE [err |-> NoErr, out |-> ids]

\* The authorization switch letting any caller update a PUBLISHED trip.
UpdateTripAuthzAnyCaller(t, caller) ==
  CASE t.status = StatusDraft ->
         IF ~isDraftVisibleToCaller(t, caller) THEN ErrTripNotFound
         ELSE IF t.draftVisibility = DraftVisibilityPrivate /\ t.creatorMemberID # caller
              THEN ErrTripNotFound
         ELSE IF t.draftVisibility = DraftVisibilityPublic /\ ~isOrganizer(t, caller)
              THEN ErrTripNotFound
         ELSE NoErr
    [] t.status = StatusPublished -> NoErr
    [] t.status = StatusCanceled -> Err(409, "TRIP_CANCELED")
    [] OTHER -> Err(409, "TRIP_INVALID_STATUS")

\* Authorization switch at the head of Service.UpdateTrip.
UpdateTripAuthz(t, caller) ==
  CASE t.status = StatusDraft ->
         IF ~isDraftVisibleToCaller(t, caller) THEN ErrTripNotFound
         ELSE IF t.draftVisibility = DraftVisibilityPrivate /\ t.creatorMemberID # caller
              THEN ErrTripNotFound
         ELSE IF t.draftVisibility = DraftVisibilityPublic /\ ~isOrganizer(t, caller)
              THEN ErrTripNotFound
         ELSE NoErr
    [] t.status = StatusPublished ->
         IF ~isOrganizer(t, caller) THEN ErrTripNotFound ELSE NoErr
    [] t.status = StatusCanceled -> Err(409, "TRIP_CANCELED")
    [] OTHER -> Err(409, "TRIP_INVALID_STATUS")

\* Service.UpdateTrip between GetByID and Save: the error it returns, or the
\* trip it saves.
UpdateTrip(t, caller, in) ==
  LET eAuth == UpdateTripAuthz(t, caller)
      eName == IF in.name.specified /\
                  (in.name.isNull \/ NormalizeHumanName(in.name.value) = "")
               THEN Err(422, "VALIDATION_ERROR") ELSE NoErr
      curAtt == IF t.attendingRigs # NilInt THEN t.attendingRigs ELSE 0
      eCap == IF in.capacityRigs.specified /\ ~in.capacityRigs.isNull
              THEN IF in.capacityRigs.value < 1 THEN Err(422, "VALIDATION_ERROR")
                   ELSE IF t.status = StatusPublished /\ in.capacityRigs.value < curAtt
                        THEN Err(409, "CAPACITY_BELOW_ATTENDANCE")
                        ELSE NoErr
              ELSE NoErr
      re == IF in.artifactIDs.specified /\ ~in.artifactIDs.isNull
            THEN reorderArtifactsByID(t.artifacts, in.artifactIDs.value)
            ELSE [err |-> NoErr, out |-> <<>>]
      t1 == [t EXCEPT
               !.name = IF in.name.specified
                        THEN NormalizeHumanName(in.name.value) ELSE @,
               !.description = applyNullableString(@, in.description),
               !.difficultyText = applyNullableString(@, in.difficultyText),
               !.commsRequirementsText =
                  applyNullableString(@, in.commsRequirementsText),
               !.recommendedRequirementsText =
                  applyNullableString(@, in.recommendedRequirementsText),
               !.startDate = applyNullableInt(@, in.startDate),
               !.endDate = applyNullableInt(@, in.endDate),
               !.capacityRigs = applyNullableInt(@, in.capacityRigs),
               !.meetingLocation =
                  IF ~in.meetingLocation.specified THEN @
                  ELSE IF in.meetingLocation.isNull THEN NilLoc
                  ELSE applyLocationPatch(@, in.meetingLocation.value),
               !.artifacts = IF ~in.artifactIDs.specified THEN @
                             ELSE IF in.artifactIDs.isNull THEN <<>> ELSE re.out]
      eDate == IF t1.startDate # NilInt /\ t1.endDate # NilInt /\ t1.endDate < t1.startDate
               THEN Err(422, "VALIDATION_ERROR") ELSE NoErr
  IN [err |-> FirstErr(<<eAuth, eName, eCap, re.err, eDate>>), t |-> t1, write |-> TRUE]

\* Service.SetTripDraftVisibility between GetByID and Save.
SetTripDraftVisibility(t, caller, dv) ==
  LET e == IF ~isTripVisibleToCaller(t, caller) THEN ErrTripNotFound
           ELSE IF t.status # StatusDraft THEN Err(409, "TRIP_NOT_DRAFT")
           ELSE IF t.creatorMemberID # caller THEN ErrTripNotFound
           ELSE IF dv \notin {DraftVisibilityPrivate, DraftVisibilityPublic}
                THEN Err(422, "VALIDATION_ERROR")
           ELSE NoErr
  IN [err |-> e, t |-> [t EXCEPT !.draftVisibility = dv], write |-> TRUE]

\* AddTripOrganizer appending the target whether or not it is an organizer.
AddTripOrganizerAgain(t, caller, target) ==
  LET e == IF ~isTripVisibleToCaller(t, caller) THEN ErrTripNotFound
           ELSE IF ~isOrganizer(t, caller) THEN ErrTripNotFound
           ELSE IF target \notin Members THEN Err(422, "VALIDATION_ERROR")
           ELSE NoErr
  IN [err |-> e, t |-> [t EXCEPT !.organizerMemberIDs = Append(@, target)],
      write |-> TRUE]

\* Service.AddTripOrganizer between GetByID and Save; the target must be a member.
AddTripOrganizer(t, caller, target) ==
  LET e == IF ~isTripVisibleToCaller(t, caller) THEN ErrTripNotFound
           ELSE IF ~isOrganizer(t, caller) THEN ErrTripNotFound
           ELSE IF target \notin Members THEN Err(422, "VALIDATION_ERROR")
           ELSE NoErr
      add == ~isOrganizerIDInSlice(t.organizerMemberIDs, target)
  IN [err |-> e,
      t |-> IF add THEN [t EXCEPT !.organizerMemberIDs = Append(@, target)] ELSE t,
      write |-> add]

\* RemoveTripOrganizer without the last-organizer guard.
RemoveTripOrganizerNoGuard(t, caller, target) ==
  LET isOrg == isOrganizerIDInSlice(t.organizerMemberIDs, target)
      out == SeqWithout(t.organizerMemberIDs, target)
      e == IF ~isTripVisibleToCaller(t, caller) THEN ErrTripNotFound
           ELSE IF ~isOrganizer(t, caller) THEN ErrTripNotFound
           ELSE NoErr
  IN [err |-> e,
      t |-> IF isOrg THEN [t EXCEPT !.organizerMemberIDs = out] ELSE t,
      write |-> isOrg]

\* Service.RemoveTripOrganizer between GetByID and Save.
RemoveTripOrganizer(t, caller, target) ==
  LET isOrg == isOrganizerIDInSlice(t.organizerMemberIDs, target)
      out == SeqWithout(t.organizerMemberIDs, target)
      e == IF ~isTripVisibleToCaller(t, caller) THEN ErrTripNotFound
           ELSE IF ~isOrganizer(t, caller) THEN ErrTripNotFound
           ELSE IF ~isOrg THEN NoErr
           ELSE IF Len(t.organizerMemberIDs) = 1 THEN Err(409, "LAST_ORGANIZER")
           ELSE IF Len(out) = 0 THEN Err(409, "LAST_ORGANIZER")
           ELSE NoErr
  IN [err |-> e,
      t |-> IF isOrg THEN [t EXCEPT !.organizerMemberIDs = out] ELSE t,
      write |-> isOrg]

\* CancelTrip storing the trip again when it is already CANCELED.
CancelTripStoresAgain(t, caller) ==
  LET e == IF ~isTripVisibleToCaller(t, caller) THEN ErrTripNotFound
           ELSE IF ~isOrganizer(t, caller) THEN ErrTripNotFound
           ELSE IF t.status \notin {StatusDraft, StatusPublished, StatusCanceled}
                THEN Err(409, "TRIP_INVALID_STATUS")
           ELSE NoErr
  IN [err |-> e, t |-> [t EXCEPT !.status = StatusCanceled], write |-> TRUE]

\* Service.CancelTrip between GetByID and Save.
CancelTrip(t, caller) ==
  LET e == IF ~isTripVisibleToCaller(t, caller) THEN ErrTripNotFound
           ELSE IF ~isOrganizer(t, caller) THEN ErrTripNotFound
           ELSE IF t.status = StatusCanceled THEN NoErr
           ELSE IF t.status \notin {StatusDraft, StatusPublished}
                THEN Err(409, "TRIP_INVALID_STATUS")
           ELSE NoErr
  IN [err |-> e, t |-> [t EXCEPT !.status = StatusCanceled],
      write |-> t.status # StatusCanceled]

\* PublishTrip storing the trip again when it is already PUBLISHED.
PublishTripStoresAgain(t, caller) ==
  LET e == IF ~isTripVisibleToCaller(t, caller) THEN ErrTripNotFound
           ELSE IF ~isOrganizer(t, caller) THEN ErrTripNotFound
           ELSE IF t.status = StatusPublished THEN NoErr
           ELSE IF t.status = StatusCanceled THEN Err(409, "TRIP_CANCELED")
           ELSE IF t.status # StatusDraft THEN Err(409, "TRIP_INVALID_STATUS")
           ELSE IF t.draftVisibility # DraftVisibilityPublic
                THEN Err(409, "TRIP_PRIVATE_DRAFT")
           ELSE IF Len(requiredPublishFieldsMissing(t)) > 0
                THEN [Err(409, "TRIP_NOT_READY_TO_PUBLISH")
                        EXCEPT !.missing = requiredPublishFieldsMissing(t)]
           ELSE NoErr
  IN [err |-> e,
      t |-> [t EXCEPT !.status = StatusPublished,
                      !.attendingRigs = IF @ = NilInt THEN 0 ELSE @],
      write |-> TRUE]

\* Service.PublishTrip between GetByID and Save.
PublishTrip(t, caller) ==
  LET e == IF ~isTripVisibleToCaller(t, caller) THEN ErrTripNotFound
           ELSE IF ~isOrganizer(t, caller) THEN ErrTripNotFound
           ELSE IF t.status = StatusPublished THEN NoErr
           ELSE IF t.status = StatusCanceled THEN Err(409, "TRIP_CANCELED")
           ELSE IF t.status # StatusDraft THEN Err(409, "TRIP_INVALID_STATUS")
           ELSE IF t.draftVisibility # DraftVisibilityPublic
                THEN Err(409, "TRIP_PRIVATE_DRAFT")
           ELSE IF Len(requiredPublishFieldsMissing(t)) > 0
                THEN [Err(409, "TRIP_NOT_READY_TO_PUBLISH")
                        EXCEPT !.missing = requiredPublishFieldsMissing(t)]
           ELSE NoErr
  IN [err |-> e,
      t |-> IF t.status = StatusPublished THEN t
            ELSE [t EXCEPT !.status = StatusPublished,
                           !.attendingRigs = IF @ = NilInt THEN 0 ELSE @],
      write |-> t.status # StatusPublished]

\* SetMyRSVP's checks with the visibility check left out.
SetMyRSVPChecksNoVisibility(t, caller, response) ==
  IF t.status # StatusPublished THEN Err(409, "TRIP_NOT_PUBLISHED")
  ELSE IF t.capacityRigs = NilInt \/ t.capacityRigs < 1
       THEN Err(409, "TRIP_MISSING_CAPACITY")
  ELSE IF response \notin {StatusYes, StatusNo, StatusUnset}
       THEN Err(422, "VALIDATION_ERROR")
  ELSE NoErr

\* Service.SetMyRSVP between GetByID and rsvps.Get.
SetMyRSVPChecks(t, caller, response) ==
  IF ~isTripVisibleToCaller(t, caller) THEN ErrTripNotFound
  ELSE IF t.status # StatusPublished THEN Err(409, "TRIP_NOT_PUBLISHED")
  ELSE IF t.capacityRigs = NilInt \/ t.capacityRigs < 1
       THEN Err(409, "TRIP_MISSING_CAPACITY")
  ELSE IF response \notin {StatusYes, StatusNo, StatusUnset}
       THEN Err(422, "VALIDATION_ERROR")
  ELSE NoErr

\* Service.SetMyRSVP after CountYesByTrip: the new attendance, from the
\* caller's existing record, the target and the count just read.
NewAttendance(existing, target, curAtt) ==
  LET delta == IF existing.status = StatusYes
               THEN (IF target # StatusYes THEN -1 ELSE 0)
               ELSE (IF target = StatusYes THEN 1 ELSE 0)
      newAtt == curAtt + delta
  IN IF newAtt < 0 THEN 0 ELSE newAtt

\* The capacity check refusing the YES that fills the last place.
AtCapacityOneEarly(t, target, newAtt) == target = StatusYes /\ newAtt >= t.capacityRigs

AtCapacity(t, target, newAtt) == target = StatusYes /\ newAtt > t.capacityRigs

\* Read-only use cases between GetByID and the RSVP reads.
ReadChecks(t, caller, draftErr) ==
  IF ~isTripVisibleToCaller(t, caller) THEN ErrTripNotFound
  ELSE IF t.status = StatusDraft /\ draftErr THEN Err(409, "RSVP_NOT_AVAILABLE")
  ELSE NoErr

\* ------------------------------------------------------ request slots
OpCreate == "CreateTripDraft"
OpUpdate == "UpdateTrip"
OpSetVisibility == "SetTripDraftVisibility"
OpAddOrganizer == "AddTripOrganizer"
OpRemoveOrganizer == "RemoveTripOrganizer"
OpCancel == "CancelTrip"
OpPublish == "PublishTrip"
OpSetRSVP == "SetMyRSVP"
OpGetDetails == "GetTripDetails"
OpGetRSVP == "GetMyRSVPForTrip"
OpGetSummary == "GetTripRSVPSummary"
OpListDrafts == "ListMyDraftTrips"
OpCreateMember == "CreateMyMember"
OpUpdateProfile == "UpdateMyMemberProfile"

NoKey == ""

NoReq ==
  [op |-> "", caller |-> "", tripID |-> "", target |-> "", response |-> "",
   dv |-> "", in |-> EmptyPatch, name |-> "", key |-> NoKey, http |-> FALSE,
   nilBody |-> FALSE, email |-> ""]

\* A slot's locals: the trip it loaded (t), the caller's RSVP it read
\* (existing), the response it is about to record (out), and for reference the
\* stored trip and YES count at the moment the request arrived (pre, preYes).
NoLoc ==
  [t |-> NoTrip, existing |-> NoRSVP, out |-> NoResp, pre |-> NoTrip, preYes |-> 0,
   m |-> NoMember]

\* The use case of a write request, applied to the trip it loaded.
Decide(rq, t) ==
  CASE rq.op = OpUpdate -> UpdateTrip(t, rq.caller, rq.in)
    [] rq.op = OpSetVisibility -> SetTripDraftVisibility(t, rq.caller, rq.dv)
    [] rq.op = OpAddOrganizer -> AddTripOrganizer(t, rq.caller, rq.target)
    [] rq.op = OpRemoveOrganizer -> RemoveTripOrganizer(t, rq.caller, rq.target)
    [] rq.op = OpCancel -> CancelTrip(t, rq.caller)
    [] rq.op = OpPublish -> PublishTrip(t, rq.caller)
    [] rq.op = OpSetRSVP ->
         [err |-> SetMyRSVPChecks(t, rq.caller, rq.response), t |-> t, write |-> FALSE]
    [] rq.op = OpGetDetails ->
         [err |-> ReadChecks(t, rq.caller, FALSE), t |-> t, write |-> FALSE]
    [] OTHER ->
         [err |-> ReadChecks(t, rq.caller, TRUE), t |-> t, write |-> FALSE]

\* Where a request continues after its trip is loaded and its checks passed.
PcAfterLoad(rq, d) ==
  CASE rq.op = OpSetRSVP -> "rsvp_get"
    [] rq.op = OpGetRSVP -> "rsvp_read"
    [] d.write -> "save"
    [] OTHER -> "details"

\* The handler returns r: a successful response of a keyed HTTP request is
\* first recorded in the idempotency store, every other response is final.
Deliver(p, r) ==
  /\ pc' = [pc EXCEPT ![p] = "idle"]
  /\ loc' = [loc EXCEPT ![p] = NoLoc]
  /\ resp' = [resp EXCEPT ![p] = r]

\* A handler that records the response of every keyed request, failures too.
FinishRecordsAll(p, rq, r) ==
  IF rq.http /\ rq.key # NoKey
  THEN /\ pc' = [pc EXCEPT ![p] = "idem_put"]
       /\ loc' = [loc EXCEPT ![p] = [NoLoc EXCEPT !.out = r]]
       /\ resp' = [resp EXCEPT ![p] = NoResp]
  ELSE Deliver(p, r)

Finish(p, rq, r) ==
  IF rq.http /\ rq.key # NoKey /\ r.status \in {200, 201}
  THEN /\ pc' = [pc EXCEPT ![p] = "idem_put"]
       /\ loc' = [loc EXCEPT ![p] = [NoLoc EXCEPT !.out = r]]
       /\ resp' = [resp EXCEPT ![p] = NoResp]
  ELSE Deliver(p, r)

\* The checks the use case makes on the trip t0 that GetByID returned.
LoadTrip(p, rq, t0) ==
  LET d == Decide(rq, t0)
  IN IF ~TripFound(t0) THEN Finish(p, rq, ErrResp(ErrTripNotFound))
     ELSE IF d.err # NoErr THEN Finish(p, rq, ErrResp(d.err))
     ELSE /\ pc' = [pc EXCEPT ![p] = PcAfterLoad(rq, d)]
          /\ loc' = [loc EXCEPT ![p] =
                       [NoLoc EXCEPT !.t = d.t, !.pre = t0,
                                     !.preYes = CountYesByTrip(rsvps, rq.tripID)]]
          /\ resp' = [resp EXCEPT ![p] = NoResp]

\* trips.GetByID and the checks the use case makes on the loaded trip.
Load(p, rq) == LoadTrip(p, rq, GetByID(trips, rq.tripID))

\* A request as it arrives at the trip service.
Request(op, caller, tripID) ==
  [NoReq EXCEPT !.op = op, !.caller = caller, !.tripID = tripID]

\* A service call begins: the slot is free, and the first storage call runs.
Begin(p, rq) ==
  /\ pc[p] = "idle"
  /\ req' = [req EXCEPT ![p] = rq]
  /\ Load(p, rq)
  /\ UNCHANGED <<byID, trips, rsvps, idem, clock>>

\* The same on the postgres backend.
PgBegin(p, rq) ==
  /\ pc[p] = "idle"
  /\ req' = [req EXCEPT ![p] = rq]
  /\ LoadTrip(p, rq, PgGetByID(trips, rsvps, rq.tripID))
  /\ UNCHANGED <<byID, trips, rsvps, idem, clock>>

\* ------------------------------------------------ trip service actions
\* A draft created PUBLIC.
NewDraftPublic(id, caller, name) ==
  [NoTrip EXCEPT !.id = id, !.status = StatusDraft, !.name = name,
                 !.creatorMemberID = caller,
                 !.organizerMemberIDs = <<caller>>,
                 !.draftVisibility = DraftVisibilityPublic]

\* Service.CreateTripDraft: members.GetByID(caller), then trips.Create under
\* the ID that newTripID returned.
NewDraft(id, caller, name) ==
  [NoTrip EXCEPT !.id = id, !.status = StatusDraft, !.name = name,
                 !.creatorMemberID = caller,
                 !.organizerMemberIDs = <<caller>>,
                 !.draftVisibility = DraftVisibilityPrivate]

DoCreate(p, rq, id) ==
  LET name == NormalizeHumanName(rq.name)
      t == [NewDraft(id, rq.caller, name) EXCEPT !.createdAt = clock, !.updatedAt = clock]
      created == [NoDetails EXCEPT !.id = id, !.status = StatusDraft,
                                   !.draftVisibility = DraftVisibilityPrivate]
  IN IF rq.caller \notin Members
     THEN Finish(p, rq, ErrResp(Err(422, "VALIDATION_ERROR"))) /\ trips' = trips
     ELSE IF name = ""
     THEN Finish(p, rq, ErrResp(Err(422, "VALIDATION_ERROR"))) /\ trips' = trips
     ELSE IF TripFound(GetByID(trips, id))
     THEN Finish(p, rq, ErrResp(Err(409, "TRIP_ID_CONFLICT"))) /\ trips' = trips
     ELSE Finish(p, rq, TripResp(201, created)) /\ trips' = [trips EXCEPT ![id] = t]

CreateTripDraftCall(p, caller, name, id) ==
  /\ pc[p] = "idle"
  /\ LET rq == [Request(OpCreate, caller, id) EXCEPT !.name = name]
     IN req' = [req EXCEPT ![p] = rq] /\ DoCreate(p, rq, id)
  /\ UNCHANGED <<byID, rsvps, idem, clock>>

UpdateTripCall(p, caller, tripID, in) ==
  Begin(p, [Request(OpUpdate, caller, tripID) EXCEPT !.in = in])

SetTripDraftVisibilityCall(p, caller, tripID, dv) ==
  Begin(p, [Request(OpSetVisibility, caller, tripID) EXCEPT !.dv = dv])

AddTripOrganizerCall(p, caller, tripID, target) ==
  Begin(p, [Request(OpAddOrganizer, caller, tripID) EXCEPT !.target = target])

RemoveTripOrganizerCall(p, caller, tripID, target) ==
  Begin(p, [Request(OpRemoveOrganizer, caller, tripID) EXCEPT !.target = target])

CancelTripCall(p, caller, tripID) == Begin(p, Request(OpCancel, caller, tripID))

PublishTripCall(p, caller, tripID) == Begin(p, Request(OpPublish, caller, tripID))

SetMyRSVPCall(p, caller, tripID, response) ==
  Begin(p, [Request(OpSetRSVP, caller, tripID) EXCEPT !.response = response])

GetTripDetailsCall(p, caller, tripID) == Begin(p, Request(OpGetDetails, caller, tripID))

GetMyRSVPForTripCall(p, caller, tripID) == Begin(p, Request(OpGetRSVP, caller, tripID))

GetTripRSVPSummaryCall(p, caller, tripID) ==
  Begin(p, Request(OpGetSummary, caller, tripID))

\* Service.ListMyDraftTrips: one call of the store, answered at once.
ListMyDraftTripsCall(p, caller) ==
  /\ pc[p] = "idle"
  /\ req' = [req EXCEPT ![p] = Request(OpListDrafts, caller, "")]
  /\ Deliver(p, [NoResp EXCEPT !.status = 200, !.list = ListMyDraftTrips(trips, caller)])
  /\ UNCHANGED <<byID, trips, rsvps, idem, clock>>

\* time.Now moves on.
Tick ==
  /\ clock < MaxClock
  /\ clock' = clock + 1
  /\ UNCHANGED <<byID, trips, rsvps, idem, pc, req, loc, resp>>

\* trips.Save of the slot's local trip.
SaveStep(p) ==
  /\ pc[p] = "save"
  /\ trips' = Save(trips, [loc[p].t EXCEPT !.updatedAt = clock])
  /\ pc' = [pc EXCEPT ![p] = IF req[p].op = OpSetRSVP THEN "rsvp_upsert" ELSE "details"]
  /\ UNCHANGED <<byID, rsvps, idem, clock, req, loc, resp>>

\* tripDetailsForTrip / GetTripDetails / GetTripRSVPSummary: the projection of
\* the local trip with the RSVP records as they are now.
DetailsStep(p) ==
  /\ pc[p] = "details"
  /\ LET rq == req[p]
         t == loc[p].t
         body == CASE rq.op = OpGetDetails -> GetTripDetailsBody(t, rsvps, rq.caller)
                   [] rq.op = OpGetSummary ->
                        [NoDetails EXCEPT !.rsvpSummary = tripRSVPSummaryForTrip(t, rsvps)]
                   [] OTHER -> tripDetailsForTrip(t, rsvps)
         copy == IF rq.op = OpPublish THEN announcementCopyFromTrip(body) ELSE <<>>
     IN Finish(p, rq, [TripResp(200, body) EXCEPT !.copy = copy])
  /\ UNCHANGED <<byID, trips, rsvps, idem, clock, req>>

\* SetMyRSVP: rsvps.Get; the same value again is a no-op.
RsvpGetStep(p) ==
  /\ pc[p] = "rsvp_get"
  /\ LET rq == req[p]
         existing == RsvpGet(rsvps, rq.tripID, rq.caller)
     IN IF existing # NoRSVP /\ existing.status = rq.response
        THEN Finish(p, rq, RsvpResp(existing))
        ELSE /\ pc' = [pc EXCEPT ![p] = "rsvp_count"]
             /\ loc' = [loc EXCEPT ![p].existing = existing]
             /\ resp' = resp
  /\ UNCHANGED <<byID, trips, rsvps, idem, clock, req>>

\* SetMyRSVP: rsvps.CountYesByTrip, the capacity check, and the new
\* AttendingRigs on the local trip.
RsvpCountStep(p) ==
  /\ pc[p] = "rsvp_count"
  /\ LET rq == req[p]
         curAtt == CountYesByTrip(rsvps, rq.tripID)
         newAtt == NewAttendance(loc[p].existing, rq.response, curAtt)
     IN IF AtCapacity(loc[p].t, rq.response, newAtt)
        THEN Finish(p, rq, ErrResp(Err(409, "TRIP_AT_CAPACITY")))
        ELSE /\ pc' = [pc EXCEPT ![p] = "save"]
             /\ loc' = [loc EXCEPT ![p].t.attendingRigs = newAtt]
             /\ resp' = resp
  /\ UNCHANGED <<byID, trips, rsvps, idem, clock, req>>

\* SetMyRSVP: rsvps.Upsert of the caller's record.
RsvpUpsertStep(p) ==
  /\ pc[p] = "rsvp_upsert"
  /\ LET rec == [status |-> req[p].response, updatedAt |-> clock]
     IN /\ rsvps' = Upsert(rsvps, req[p].tripID, req[p].caller, rec)
        /\ Finish(p, req[p], RsvpResp(rec))
  /\ UNCHANGED <<byID, trips, idem, clock, req>>

\* trips.Save on the postgres backend: the use case returns the error of a
\* refused Save as it is (status 500, the code standing for the raw error).
PgSaveStep(p) ==
  /\ pc[p] = "save"
  /\ LET r == PgSave(trips, rsvps, [loc[p].t EXCEPT !.updatedAt = clock])
     IN IF r.err # ""
        THEN /\ trips' = trips
             /\ Finish(p, req[p], ErrResp(Err(500, r.err)))
        ELSE /\ trips' = r.ts
             /\ pc' = [pc EXCEPT ![p] = IF req[p].op = OpSetRSVP
                                         THEN "rsvp_upsert" ELSE "details"]
             /\ UNCHANGED <<loc, resp>>
  /\ UNCHANGED <<byID, rsvps, idem, clock, req>>

\* SetMyRSVP: rsvps.Upsert on the postgres backend.
PgRsvpUpsertStep(p) ==
  /\ pc[p] = "rsvp_upsert"
  /\ LET rec == [status |-> req[p].response, updatedAt |-> clock]
         r == PgUpsert(trips, rsvps, req[p].tripID, req[p].caller, rec, clock)
     IN /\ rsvps' = r.rs
        /\ IF r.err # ""
           THEN Finish(p, req[p], ErrResp(Err(500, r.err)))
           ELSE Finish(p, req[p], RsvpResp(rec))
  /\ UNCHANGED <<byID, trips, idem, clock, req>>

\* GetMyRSVPForTrip: rsvps.Get.
RsvpReadStep(p) ==
  /\ pc[p] = "rsvp_read"
  /\ LET rec == RsvpGet(rsvps, req[p].tripID, req[p].caller)
     IN IF rec = NoRSVP
        THEN Finish(p, req[p], ErrResp(Err(404, "RSVP_NOT_FOUND")))
        ELSE Finish(p, req[p], RsvpResp(rec))
  /\ UNCHANGED <<byID, trips, rsvps, idem, clock, req>>

\* ------------------------------------------------------------ HTTP layer
\* The method and route pattern a handler puts in its fingerprints.
Method(op) ==
  CASE op = OpCreate -> "POST"
    [] op = OpUpdate -> "PATCH"
    [] op = OpSetVisibility -> "PUT"
    [] op = OpAddOrganizer -> "POST"
    [] op = OpRemoveOrganizer -> "DELETE"
    [] op = OpCancel -> "POST"
    [] op = OpSetRSVP -> "PUT"
    [] op = OpUpdateProfile -> "PATCH"
    [] OTHER -> ""

Route(op) ==
  CASE op = OpCreate -> "/trips"
    [] op = OpUpdate -> "/trips/{tripId}"
    [] op = OpSetVisibility -> "/trips/{tripId}/draft-visibility"
    [] op = OpAddOrganizer -> "/trips/{tripId}/organizers"
    [] op = OpRemoveOrganizer -> "/trips/{tripId}/organizers/{memberId}"
    [] op = OpCancel -> "/trips/{tripId}/cancel"
    [] op = OpSetRSVP -> "/trips/{tripId}/rsvp"
    [] op = OpUpdateProfile -> "/members/me"
    [] OTHER -> ""

\* Handlers whose request carries a JSON body, refused with 422 when absent.
TakesBody(op) ==
  op \in {OpCreate, OpUpdate, OpSetVisibility, OpAddOrganizer, OpSetRSVP,
          OpCreateMember, OpUpdateProfile}

\* The hash*Body functions: SHA-256 of the canonical JSON of the trip ID and
\* the body, a trip name normalized first. The digest is modelled by the
\* canonical form it is taken of; the empty BodyHash is NoHash.
NoHash ==
  [tripID |-> "", memberID |-> "", dv |-> "", response |-> "", in |-> EmptyPatch,
   name |-> "", email |-> ""]

BodyHash(rq) ==
  CASE rq.op = OpCreate -> [NoHash EXCEPT !.name = NormalizeHumanName(rq.name)]
    [] rq.op = OpUpdateProfile ->
         [NoHash EXCEPT !.name = NormalizeHumanName(rq.name),
                        !.email = TrimSpace(rq.email)]
    [] rq.op = OpUpdate ->
         [NoHash EXCEPT !.tripID = rq.tripID,
                        !.in = IF rq.in.name.specified /\ ~rq.in.name.isNull
                               THEN [rq.in EXCEPT !.name.value = NormalizeHumanName(@)]
                               ELSE rq.in]
    [] rq.op = OpSetVisibility -> [NoHash EXCEPT !.tripID = rq.tripID, !.dv = rq.dv]
    [] rq.op = OpAddOrganizer -> [NoHash EXCEPT !.tripID = rq.tripID, !.memberID = rq.target]
    [] rq.op = OpRemoveOrganizer -> [NoHash EXCEPT !.tripID = rq.tripID, !.memberID = rq.target]
    [] rq.op = OpSetRSVP -> [NoHash EXCEPT !.tripID = rq.tripID, !.response = rq.response]
    [] OTHER -> [NoHash EXCEPT !.tripID = rq.tripID]

\* idempotency.Fingerprint of a request; the subject of a provisioned member is
\* written as the member's ID.
\* A fingerprint that leaves the subject out.
FingerprintNoSubject(rq, bodyHash) ==
  [key |-> rq.key, subject |-> "", method |-> Method(rq.op),
   route |-> Route(rq.op), bodyHash |-> bodyHash]

Fingerprint(rq, bodyHash) ==
  [key |-> rq.key, subject |-> rq.caller, method |-> Method(rq.op),
   route |-> Route(rq.op), bodyHash |-> bodyHash]

\* idempotency.Record: the marker of a key holds the body hash as its body,
\* the record of a response holds the response.
NoRecord ==
  [found |-> FALSE, statusCode |-> 0, contentType |-> "", hash |-> NoHash, body |-> NoResp]
MetaRecord(bodyHash) ==
  [found |-> TRUE, statusCode |-> 0, contentType |-> "text/plain",
   hash |-> bodyHash, body |-> NoResp]
\* A record that keeps the status of a response and drops its body.
ResponseRecordStatusOnly(r) ==
  [found |-> TRUE, statusCode |-> r.status, contentType |-> "application/json",
   hash |-> NoHash, body |-> [NoResp EXCEPT !.status = r.status]]

ResponseRecord(r) ==
  [found |-> TRUE, statusCode |-> r.status, contentType |-> "application/json",
   hash |-> NoHash, body |-> r]

\* A store whose Get finds nothing.
IdemGetNothing(store, fp) == NoRecord

\* memory idempotency Store.Get / Store.Put: a map from fingerprint to record.
IdemGet(store, fp) ==
  IF \E e \in store : e.fp = fp
  THEN (CHOOSE e \in store : e.fp = fp).rec
  ELSE NoRecord
IdemPut(store, fp, rec) ==
  {e \in store : e.fp # fp} \cup {[fp |-> fp, rec |-> rec]}

\* The status a handler replays: 201 for CreateTripDraft, 200 for the others.
ReplayStatus(op) == IF op = OpCreate THEN 201 ELSE 200

\* A handler up to its call of the trip service: GetMyMemberProfile, the body
\* check, and for a request with an Idempotency-Key the look-up of the key's
\* marker (refusing a different body, else writing the marker if absent) and
\* of a recorded response to replay.
HttpBegin(p, rq) ==
  /\ pc[p] = "idle"
  /\ req' = [req EXCEPT ![p] = rq]
  /\ LET bodyHash == BodyHash(rq)
         metaFP == Fingerprint(rq, NoHash)
         respFP == Fingerprint(rq, bodyHash)
         meta == IdemGet(idem, metaFP)
         marked == IF meta.found THEN idem ELSE IdemPut(idem, metaFP, MetaRecord(bodyHash))
         rec == IdemGet(marked, respFP)
         proceed == /\ pc' = [pc EXCEPT ![p] = "load"]
                    /\ loc' = [loc EXCEPT ![p] = NoLoc]
                    /\ resp' = [resp EXCEPT ![p] = NoResp]
     IN IF rq.caller \notin Members
        THEN Deliver(p, ErrResp(Err(401, "MEMBER_NOT_PROVISIONED"))) /\ idem' = idem
        ELSE IF TakesBody(rq.op) /\ rq.nilBody
        THEN Deliver(p, ErrResp(Err(422, "VALIDATION_ERROR"))) /\ idem' = idem
        ELSE IF rq.key = NoKey
        THEN proceed /\ idem' = idem
        ELSE IF meta.found /\ meta.hash # bodyHash
        THEN Deliver(p, ErrResp(Err(409, "IDEMPOTENCY_KEY_REUSE"))) /\ idem' = idem
        ELSE IF /\ rec.found
                /\ rec.statusCode = ReplayStatus(rq.op)
                /\ rec.contentType = "application/json"
        THEN Deliver(p, rec.body) /\ idem' = marked
        ELSE proceed /\ idem' = marked
  /\ UNCHANGED <<byID, trips, rsvps, clock>>

\* An HTTP request as it arrives at a handler.
HttpRequest(op, caller, tripID, key) ==
  [Request(op, caller, tripID) EXCEPT !.key = key, !.http = TRUE]

\* The handler calls the trip service: trips.GetByID and the use case's checks.
LoadStep(p) ==
  /\ pc[p] = "load"
  /\ Load(p, req[p])
  /\ UNCHANGED <<byID, trips, rsvps, idem, clock, req>>

\* The handler records the successful response under the request's
\* fingerprint and returns it.
IdemPutStep(p) ==
  /\ pc[p] = "idem_put"
  /\ idem' = IdemPut(idem, Fingerprint(req[p], BodyHash(req[p])),
                     ResponseRecord(loc[p].out))
  /\ Deliver(p, loc[p].out)
  /\ UNCHANGED <<byID, trips, rsvps, clock, req>>

\* A handler with a required Idempotency-Key, in the steps of its storage
\* calls. It begins with GetMyMemberProfile, the body check and Idem.Get of
\* the key's marker: a marker with another body hash ends the request.
HttpArrive(p, rq) ==
  /\ pc[p] = "idle"
  /\ req' = [req EXCEPT ![p] = rq]
  /\ LET meta == IdemGet(idem, Fingerprint(rq, NoHash))
     IN IF rq.op # OpUpdateProfile /\ rq.caller \notin Members
        THEN Deliver(p, ErrResp(Err(401, "MEMBER_NOT_PROVISIONED")))
        ELSE IF TakesBody(rq.op) /\ rq.nilBody
        THEN Deliver(p, ErrResp(Err(422, "VALIDATION_ERROR")))
        ELSE IF meta.found /\ meta.hash # BodyHash(rq)
        THEN Deliver(p, ErrResp(Err(409, "IDEMPOTENCY_KEY_REUSE")))
        ELSE /\ pc' = [pc EXCEPT ![p] = IF meta.found THEN "idem_resp" ELSE "idem_mark"]
             /\ loc' = [loc EXCEPT ![p] = NoLoc]
             /\ resp' = [resp EXCEPT ![p] = NoResp]
  /\ UNCHANGED <<byID, trips, rsvps, idem, clock>>

\* Idem.Put of the marker, by a request that found none.
IdemMarkStep(p) ==
  /\ pc[p] = "idem_mark"
  /\ idem' = IdemPut(idem, Fingerprint(req[p], NoHash), MetaRecord(BodyHash(req[p])))
  /\ pc' = [pc EXCEPT ![p] = "idem_resp"]
  /\ UNCHANGED <<byID, trips, rsvps, clock, req, loc, resp>>

\* Idem.Get of the response recorded under the request's fingerprint: it is
\* replayed, or the handler goes on to call the trip service.
IdemRespStep(p) ==
  /\ pc[p] = "idem_resp"
  /\ LET rec == IdemGet(idem, Fingerprint(req[p], BodyHash(req[p])))
     IN IF /\ rec.found
           /\ rec.statusCode = ReplayStatus(req[p].op)
           /\ rec.contentType = "application/json"
        THEN Deliver(p, rec.body)
        ELSE /\ pc' = [pc EXCEPT ![p] = CASE req[p].op = OpCreate -> "create"
                                         [] req[p].op = OpUpdateProfile -> "m_get"
                                         [] OTHER -> "load"]
             /\ UNCHANGED <<loc, resp>>
  /\ UNCHANGED <<byID, trips, rsvps, idem, clock, req>>

\* The CreateTripDraft handler calls the trip service; newTripID returns an
\* ID no trip has.
CreateStep(p) ==
  /\ pc[p] = "create"
  /\ \E id \in TripIDs : ~TripFound(GetByID(trips, id)) /\ DoCreate(p, req[p], id)
  /\ UNCHANGED <<byID, rsvps, idem, clock, req>>

\* ------------------------------------------------------ member handlers
\* The CreateMyMember handler and Service.CreateMyMember up to its call of
\* ensureEmailUnique: repo.GetBySubject, then the display name and the
\* email address are normalized and validated.
CreateMyMemberCall(p, subject, displayName, email) ==
  /\ pc[p] = "idle"
  /\ req' = [req EXCEPT ![p] = [NoReq EXCEPT !.op = OpCreateMember, !.caller = subject,
                                            !.name = displayName, !.email = email,
                                            !.http = TRUE]]
  /\ IF MemberFound(GetBySubject(byID, subject))
     THEN Deliver(p, ErrResp(Err(409, "MEMBER_ALREADY_EXISTS")))
     ELSE IF NormalizeHumanName(displayName) = "" \/ TrimSpace(email) = ""
     THEN Deliver(p, ErrResp(Err(422, "VALIDATION_ERROR")))
     ELSE /\ pc' = [pc EXCEPT ![p] = "m_list"]
          /\ loc' = [loc EXCEPT ![p] =
                       [NoLoc EXCEPT !.m = [id |-> "", subject |-> subject,
                                            displayName |-> NormalizeHumanName(displayName),
                                            email |-> TrimSpace(email)]]]
          /\ resp' = [resp EXCEPT ![p] = NoResp]
  /\ UNCHANGED <<byID, trips, rsvps, idem, clock>>

\* Service.UpdateMyMemberProfile is called with the subject and the patch.
UpdateMyMemberProfileCall(p, subject, displayName, email) ==
  /\ pc[p] = "idle"
  /\ req' = [req EXCEPT ![p] = [NoReq EXCEPT !.op = OpUpdateProfile, !.caller = subject,
                                            !.name = displayName, !.email = email]]
  /\ pc' = [pc EXCEPT ![p] = "m_get"]
  /\ loc' = [loc EXCEPT ![p] = NoLoc]
  /\ resp' = [resp EXCEPT ![p] = NoResp]
  /\ UNCHANGED <<byID, trips, rsvps, idem, clock>>

\* Service.UpdateMyMemberProfile up to its call of ensureEmailUnique or of
\* repo.Update: repo.GetBySubject, then the patch is applied to the member
\* read. A field of the request left empty is not specified.
MemberGetStep(p) ==
  /\ pc[p] = "m_get"
  /\ LET m == GetBySubject(byID, req[p].caller)
         named == IF req[p].name = "" THEN m
                  ELSE [m EXCEPT !.displayName = NormalizeHumanName(req[p].name)]
         patched == IF req[p].email = "" THEN named
                    ELSE [named EXCEPT !.email = TrimSpace(req[p].email)]
     IN IF ~MemberFound(m)
        THEN Finish(p, req[p], ErrResp(Err(404, "MEMBER_NOT_PROVISIONED")))
        ELSE IF patched.displayName = "" \/ patched.email = ""
        THEN Finish(p, req[p], ErrResp(Err(422, "VALIDATION_ERROR")))
        ELSE /\ pc' = [pc EXCEPT ![p] = IF req[p].email = "" THEN "m_update" ELSE "m_list"]
             /\ loc' = [loc EXCEPT ![p] = [NoLoc EXCEPT !.m = patched]]
             /\ UNCHANGED resp
  /\ UNCHANGED <<byID, trips, rsvps, idem, clock, req>>

\* ensureEmailUnique: repo.List and the comparison with every other member.
MemberListStep(p) ==
  /\ pc[p] = "m_list"
  /\ LET err == ensureEmailUnique(byID, loc[p].m.email, loc[p].m.id)
     IN IF err # NoErr
        THEN Finish(p, req[p], ErrResp(err))
        ELSE /\ pc' = [pc EXCEPT ![p] = IF req[p].op = OpCreateMember
                                         THEN "m_create" ELSE "m_update"]
             /\ UNCHANGED <<loc, resp>>
  /\ UNCHANGED <<byID, trips, rsvps, idem, clock, req>>

\* memory Repo.Create under the ID that newMemberID returned, an ID no
\* member has (the first of them in the model): a subject that is already
\* bound is refused.
MemberCreateStep(p) ==
  /\ pc[p] = "m_create"
  /\ \E id \in DOMAIN byID :
       /\ ~MemberFound(byID[id])
       /\ \A other \in DOMAIN byID :
            ~MemberFound(byID[other]) => MemberRank(id) <= MemberRank(other)
       /\ LET m == [loc[p].m EXCEPT !.id = id]
          IN IF MemberFound(GetBySubject(byID, m.subject))
             THEN /\ Finish(p, req[p], ErrResp(Err(409, "MEMBER_ALREADY_EXISTS")))
                  /\ byID' = byID
             ELSE /\ Finish(p, req[p], MemberResp(201, m))
                  /\ byID' = [byID EXCEPT ![id] = m]
  /\ UNCHANGED <<trips, rsvps, idem, clock, req>>

\* memory Repo.Update: the member read earlier, with the patch applied,
\* replaces the stored member.
MemberUpdateStep(p) ==
  /\ pc[p] = "m_update"
  /\ byID' = [byID EXCEPT ![loc[p].m.id] = loc[p].m]
  /\ Finish(p, req[p], MemberResp(200, loc[p].m))
  /\ UNCHANGED <<trips, rsvps, idem, clock, req>>

\* ----------------------------------------------------------------- Init
Init ==
  /\ trips = [id \in TripIDs |-> NoTrip]
  /\ rsvps = [k \in TripIDs \X Members |-> NoRSVP]
  /\ idem = {}
  /\ clock = 0
  /\ byID = Provisioned
  /\ pc = [p \in Procs |-> "idle"]
  /\ req = [p \in Procs |-> NoReq]
  /\ loc = [p \in Procs |-> NoLoc]
  /\ resp = [p \in Procs |-> NoResp]

\* ------------------------------------------------------ request inputs
\* Every required-to-publish field, with capacity c.
ReadyPatch(c) ==
  [EmptyPatch EXCEPT !.description = SomeStr("d"),
                     !.startDate = SomeInt(1), !.endDate = SomeInt(2),
                     !.capacityRigs = SomeInt(c),
                     !.difficultyText = SomeStr("easy"),
                     !.meetingLocation = SomeLoc(LocationPatch(SomeStr("lot"), UnspecifiedStr)),
                     !.commsRequirementsText = SomeStr("gmrs"),
                     !.recommendedRequirementsText = SomeStr("tires")]
CapacityPatch(c) == [EmptyPatch EXCEPT !.capacityRigs = SomeInt(c)]
NullCapacityPatch == [EmptyPatch EXCEPT !.capacityRigs = NullInt]

\* The fields UpdateTrip can clear, and the patch that clears field f: with
\* null, or for a text with a blank string.
ClearableFields ==
  {"description", "startDate", "endDate", "capacityRigs", "difficultyText",
   "meetingLocation", "commsRequirementsText", "recommendedRequirementsText"}

ClearPatch(f, blank) ==
  LET str == IF blank THEN SomeStr(Blank) ELSE NullStr
  IN CASE f = "description" -> [EmptyPatch EXCEPT !.description = str]
       [] f = "startDate" -> [EmptyPatch EXCEPT !.startDate = NullInt]
       [] f = "endDate" -> [EmptyPatch EXCEPT !.endDate = NullInt]
       [] f = "capacityRigs" -> [EmptyPatch EXCEPT !.capacityRigs = NullInt]
       [] f = "difficultyText" -> [EmptyPatch EXCEPT !.difficultyText = str]
       [] f = "meetingLocation" ->
            [EmptyPatch EXCEPT !.meetingLocation =
               IF blank THEN SomeLoc(LocationPatch(str, UnspecifiedStr)) ELSE NullLoc]
       [] f = "commsRequirementsText" -> [EmptyPatch EXCEPT !.commsRequirementsText = str]
       [] OTHER -> [EmptyPatch EXCEPT !.recommendedRequirementsText = str]

Capacities == 1..MaxCap
Responses == {StatusYes, StatusNo, StatusUnset}
Visibilities == {DraftVisibilityPrivate, DraftVisibilityPublic}

\* ---------------------------------------------------------------- Spec
\* The trip service called one request at a time: the life cycle of a trip
\* and its organizers.
Next ==
  \/ \E caller \in Members : CreateTripDraftCall("p1", caller, "Trip", "t1")
  \/ \E caller \in Members, c \in Capacities :
       UpdateTripCall("p1", caller, "t1", ReadyPatch(c))
  \/ \E caller \in Members, dv \in Visibilities :
       SetTripDraftVisibilityCall("p1", caller, "t1", dv)
  \/ \E caller \in Members, target \in Members \cup {Ghost} :
       AddTripOrganizerCall("p1", caller, "t1", target)
  \/ \E caller \in Members, target \in Members :
       RemoveTripOrganizerCall("p1", caller, "t1", target)
  \/ \E caller \in Members : CancelTripCall("p1", caller, "t1")
  \/ \E caller \in Members : PublishTripCall("p1", caller, "t1")
  \/ SaveStep("p1")
  \/ DetailsStep("p1")

Spec == Init /\ [][Next]_vars

\* ----------------------------------------------------------- SpecOrgRace
\* Two slots serving create, draft-visibility, add-organizer and
\* remove-organizer requests on one trip, interleaved call by call.
RaceMembers == {"m1", "m2"}

NextOrgRace ==
  \E p \in Procs :
    \/ CreateTripDraftCall(p, "m1", "Trip", "t1")
    \/ \E dv \in Visibilities : SetTripDraftVisibilityCall(p, "m1", "t1", dv)
    \/ \E caller \in RaceMembers, target \in RaceMembers :
         AddTripOrganizerCall(p, caller, "t1", target)
    \/ \E caller \in RaceMembers, target \in RaceMembers :
         RemoveTripOrganizerCall(p, caller, "t1", target)
    \/ SaveStep(p)
    \/ DetailsStep(p)

SpecOrgRace == Init /\ [][NextOrgRace]_vars

\* -------------------------------------------------------------- SpecRace
\* Two requests on one published trip, each slot serving one request, their
\* storage calls interleaved. The trip is the one stored after m1 created
\* it, filled in every publish-required field with capacity c, made the
\* draft public and published it.
ReadyDraft(c) ==
  LET created == NewDraft("t1", "m1", NormalizeHumanName("Trip"))
      ready == UpdateTrip(created, "m1", ReadyPatch(c)).t
  IN SetTripDraftVisibility(ready, "m1", DraftVisibilityPublic).t

PublishedTrip(c) == PublishTrip(ReadyDraft(c), "m1").t

DescriptionPatch == [EmptyPatch EXCEPT !.description = SomeStr("e")]

InitRace ==
  /\ \E c \in Capacities :
       trips = [id \in TripIDs |-> IF id = "t1" THEN PublishedTrip(c) ELSE NoTrip]
  /\ rsvps = [k \in TripIDs \X Members |-> NoRSVP]
  /\ idem = {}
  /\ clock = 0
  /\ byID = Provisioned
  /\ pc = [p \in Procs |-> "idle"]
  /\ req = [p \in Procs |-> NoReq]
  /\ loc = [p \in Procs |-> NoLoc]
  /\ resp = [p \in Procs |-> NoResp]

NextRace ==
  \E p \in Procs :
    \/ /\ req[p] = NoReq
       /\ \/ \E caller \in Members, r \in {StatusYes, StatusNo} :
               SetMyRSVPCall(p, caller, "t1", r)
          \/ CancelTripCall(p, "m1", "t1")
          \/ UpdateTripCall(p, "m1", "t1", DescriptionPatch)
          \/ AddTripOrganizerCall(p, "m1", "t1", "m2")
    \/ SaveStep(p)
    \/ DetailsStep(p)
    \/ RsvpGetStep(p)
    \/ RsvpCountStep(p)
    \/ RsvpUpsertStep(p)

SpecRace == InitRace /\ [][NextRace]_vars

\* --------------------------------------------------------- SpecDraftRace
\* Two slots serving the creator's publish, cancel, update and
\* draft-visibility requests on one trip, their storage calls interleaved.
\* The trip starts as the public draft that is ready to publish.
InitDraftRace ==
  /\ trips = [id \in TripIDs |-> IF id = "t1" THEN ReadyDraft(1) ELSE NoTrip]
  /\ rsvps = [k \in TripIDs \X Members |-> NoRSVP]
  /\ idem = {}
  /\ clock = 0
  /\ byID = Provisioned
  /\ pc = [p \in Procs |-> "idle"]
  /\ req = [p \in Procs |-> NoReq]
  /\ loc = [p \in Procs |-> NoLoc]
  /\ resp = [p \in Procs |-> NoResp]

NextDraftRace ==
  \E p \in Procs :
    \/ PublishTripCall(p, "m1", "t1")
    \/ CancelTripCall(p, "m1", "t1")
    \/ UpdateTripCall(p, "m1", "t1", DescriptionPatch)
    \/ \E dv \in Visibilities : SetTripDraftVisibilityCall(p, "m1", "t1", dv)
    \/ SaveStep(p)
    \/ DetailsStep(p)

SpecDraftRace == InitDraftRace /\ [][NextDraftRace]_vars

\* -------------------------------------------------------------- SpecRsvp
\* RSVPs and cancellation on one published trip, one request at a time,
\* while time passes.
NextRsvp ==
  \/ Tick
  \/ \E caller \in Members, r \in Responses : SetMyRSVPCall("p1", caller, "t1", r)
  \/ CancelTripCall("p1", "m1", "t1")
  \/ SaveStep("p1")
  \/ DetailsStep("p1")
  \/ RsvpGetStep("p1")
  \/ RsvpCountStep("p1")
  \/ RsvpUpsertStep("p1")

SpecRsvp == InitRace /\ [][NextRsvp]_vars

\* -------------------------------------------------------------- SpecHttp
\* The trip-scoped HTTP handlers called by member m2, one request at a
\* time, on trip t1 and on t2, which is never created, while the creator m1
\* creates t1, fills it in, changes its draft visibility, publishes it and
\* adds and removes m2 as organizer through the trip service.
MaxIdem == 2

\* The store has room for the marker and the response of a new key.
IdemRoom(rq) ==
  \/ rq.key = NoKey
  \/ IdemGet(idem, Fingerprint(rq, NoHash)).found
  \/ Cardinality(idem) + 2 <= MaxIdem

HttpCall(p, rq) == IdemRoom(rq) /\ HttpBegin(p, rq)

NextHttp ==
  \/ CreateTripDraftCall("p1", "m1", "Trip", "t1")
  \/ UpdateTripCall("p1", "m1", "t1", ReadyPatch(1))
  \/ \E dv \in Visibilities : SetTripDraftVisibilityCall("p1", "m1", "t1", dv)
  \/ PublishTripCall("p1", "m1", "t1")
  \/ AddTripOrganizerCall("p1", "m1", "t1", "m2")
  \/ RemoveTripOrganizerCall("p1", "m1", "t1", "m2")
  \/ \E id \in TripIDs :
       \/ HttpCall("p1", HttpRequest(OpGetDetails, "m2", id, NoKey))
       \/ HttpCall("p1", HttpRequest(OpGetRSVP, "m2", id, NoKey))
       \/ HttpCall("p1", HttpRequest(OpGetSummary, "m2", id, NoKey))
       \/ HttpCall("p1", HttpRequest(OpPublish, "m2", id, NoKey))
       \/ \E key \in {NoKey, "k1"} : HttpCall("p1", HttpRequest(OpCancel, "m2", id, key))
       \/ \E nil \in BOOLEAN :
            HttpCall("p1", [HttpRequest(OpUpdate, "m2", id, "k1")
                              EXCEPT !.in = DescriptionPatch, !.nilBody = nil])
       \/ HttpCall("p1", [HttpRequest(OpSetVisibility, "m2", id, "k1")
                            EXCEPT !.dv = DraftVisibilityPublic])
       \/ HttpCall("p1", [HttpRequest(OpAddOrganizer, "m2", id, "k1") EXCEPT !.target = "m3"])
       \/ HttpCall("p1", [HttpRequest(OpRemoveOrganizer, "m2", id, "k1") EXCEPT !.target = "m3"])
       \/ HttpCall("p1", [HttpRequest(OpSetRSVP, "m2", id, "k1") EXCEPT !.response = StatusYes])
  \/ LoadStep("p1")
  \/ SaveStep("p1")
  \/ DetailsStep("p1")
  \/ RsvpGetStep("p1")
  \/ RsvpCountStep("p1")
  \/ RsvpUpsertStep("p1")
  \/ RsvpReadStep("p1")
  \/ IdemPutStep("p1")

SpecHttp == Init /\ [][NextHttp]_vars

\* -------------------------------------------------------------- SpecIdem
\* POST /trips by m1 and m2, two requests at a time, all under the one key
\* k1, with names that normalize to the same name, to another name and to
\* the empty name.
DraftNames == {"Snow Run", " Snow  Run ", "Trip", Blank}

\* A free trip ID is left for every CreateTripDraft request under way.
IdRoom ==
  Cardinality({id \in TripIDs : ~TripFound(GetByID(trips, id))})
    > Cardinality({q \in Procs : pc[q] # "idle"})

NextIdem ==
  \/ \E p \in Procs, caller \in {"m1", "m2"}, name \in DraftNames :
       /\ IdRoom
       /\ HttpArrive(p, [HttpRequest(OpCreate, caller, "", "k1") EXCEPT !.name = name])
  \/ \E p \in Procs :
       \/ IdemMarkStep(p)
       \/ IdemRespStep(p)
       \/ CreateStep(p)
       \/ IdemPutStep(p)

SpecIdem == Init /\ [][NextIdem]_vars

\* ------------------------------------------------------------- SpecRetry
\* PUT /trips/t1/rsvp by m2 under the key k1, two requests at a time, on
\* the ready public draft that its creator m1 publishes at some moment.
NextRetry ==
  \E p \in Procs :
    \/ PublishTripCall(p, "m1", "t1")
    \/ \E r \in {StatusYes, StatusNo} :
         HttpArrive(p, [HttpRequest(OpSetRSVP, "m2", "t1", "k1") EXCEPT !.response = r])
    \/ IdemMarkStep(p)
    \/ IdemRespStep(p)
    \/ LoadStep(p)
    \/ SaveStep(p)
    \/ DetailsStep(p)
    \/ RsvpGetStep(p)
    \/ RsvpCountStep(p)
    \/ RsvpUpsertStep(p)
    \/ IdemPutStep(p)

SpecRetry == InitDraftRace /\ [][NextRetry]_vars

\* ----------------------------------------------------------- SpecMembers
\* CreateMyMember and UpdateMyMemberProfile by two subjects on an empty
\* member repository, two requests at a time, with two email addresses that
\* differ in letter case only and one that differs otherwise.
Subjects == {"s1", "s2"}
Emails == {"a@x.org", "A@x.org", "b@x.org"}

InitMembers ==
  /\ byID = [id \in Members |-> NoMember]
  /\ trips = [id \in TripIDs |-> NoTrip]
  /\ rsvps = [k \in TripIDs \X Members |-> NoRSVP]
  /\ idem = {}
  /\ clock = 0
  /\ pc = [p \in Procs |-> "idle"]
  /\ req = [p \in Procs |-> NoReq]
  /\ loc = [p \in Procs |-> NoLoc]
  /\ resp = [p \in Procs |-> NoResp]

NextMembers ==
  \E p \in Procs :
    \/ \E subject \in Subjects, email \in Emails :
         \/ CreateMyMemberCall(p, subject, "Ann", email)
         \/ UpdateMyMemberProfileCall(p, subject, "", email)
    \/ MemberListStep(p)
    \/ MemberCreateStep(p)
    \/ MemberGetStep(p)
    \/ MemberUpdateStep(p)

SpecMembers == InitMembers /\ [][NextMembers]_vars

\* ----------------------------------------------------------- SpecProfile
\* PATCH /members/me by the provisioned member m1 under the key k1, two
\* requests at a time, with email addresses that differ in letter case or
\* padding only and one that differs otherwise.
NextProfile ==
  \E p \in Procs :
    \/ \E email \in Emails \cup {" a@x.org "} :
         HttpArrive(p, [HttpRequest(OpUpdateProfile, "m1", "", "k1") EXCEPT !.email = email])
    \/ IdemMarkStep(p)
    \/ IdemRespStep(p)
    \/ MemberGetStep(p)
    \/ MemberListStep(p)
    \/ MemberUpdateStep(p)
    \/ IdemPutStep(p)

SpecProfile == Init /\ [][NextProfile]_vars

\* ---------------------------------------------------------- SpecCapacity
\* A published trip whose members answer YES while the organizer m1 changes
\* the capacity; two slots, every storage call its own step.
RsvpMembers == {"m2", "m3"}

NextCapacity ==
  \E p \in Procs :
    \/ \E caller \in RsvpMembers : SetMyRSVPCall(p, caller, "t1", StatusYes)
    \/ \E c \in Capacities : UpdateTripCall(p, "m1", "t1", CapacityPatch(c))
    \/ SaveStep(p)
    \/ DetailsStep(p)
    \/ RsvpGetStep(p)
    \/ RsvpCountStep(p)
    \/ RsvpUpsertStep(p)

SpecCapacity == InitRace /\ [][NextCapacity]_vars

\* ------------------------------------------------------------- SpecAuthz
\* The trip service called one request at a time by every member: the life
\* cycle of a trip with capacity 1, its organizers and its YES answers.
NextAuthz ==
  \/ \E caller \in Members : CreateTripDraftCall("p1", caller, "Trip", "t1")
  \/ \E caller \in Members : UpdateTripCall("p1", caller, "t1", ReadyPatch(1))
  \/ \E caller \in Members, dv \in Visibilities :
       SetTripDraftVisibilityCall("p1", caller, "t1", dv)
  \/ \E caller \in Members, target \in Members :
       AddTripOrganizerCall("p1", caller, "t1", target)
  \/ \E caller \in Members, target \in Members :
       RemoveTripOrganizerCall("p1", caller, "t1", target)
  \/ \E caller \in Members : CancelTripCall("p1", caller, "t1")
  \/ \E caller \in Members : PublishTripCall("p1", caller, "t1")
  \/ \E caller \in Members : SetMyRSVPCall("p1", caller, "t1", StatusYes)
  \/ SaveStep("p1")
  \/ DetailsStep("p1")
  \/ RsvpGetStep("p1")
  \/ RsvpCountStep("p1")
  \/ RsvpUpsertStep("p1")

SpecAuthz == Init /\ [][NextAuthz]_vars

\* ----------------------------------------------------------- SpecUnbound
\* POST /trips and PATCH /members/me, one request at a time, sent by the
\* subject of member m1 and by a subject that no member is bound to.
NextUnbound ==
  \/ \E subject \in {"m1", Ghost}, key \in Keys :
       /\ IdRoom
       /\ HttpArrive("p1", [HttpRequest(OpCreate, subject, "", key) EXCEPT !.name = "Trip"])
  \/ \E subject \in {"m1", Ghost}, key \in Keys, email \in {"a@x.org", "b@x.org"} :
       HttpArrive("p1", [HttpRequest(OpUpdateProfile, subject, "", key)
                           EXCEPT !.email = email])
  \/ IdemMarkStep("p1")
  \/ IdemRespStep("p1")
  \/ CreateStep("p1")
  \/ MemberGetStep("p1")
  \/ MemberListStep("p1")
  \/ MemberUpdateStep("p1")
  \/ IdemPutStep("p1")

SpecUnbound == Init /\ [][NextUnbound]_vars

\* --------------------------------------------------------- SpecArtifacts
\* UpdateTrip with an artifact ID list, one request at a time, on a draft of
\* m1 that the repository holds with no, one or two artifacts. An artifact
\* is written as its ArtifactID; a3 is the ID of no artifact.
MaxIds == 2

ArtifactIDs == {"a1", "a2"}

IDLists == UNION {[1..n -> ArtifactIDs \cup {"a3"}] : n \in 0..MaxIds}

ArtifactPatch(ids) == [EmptyPatch EXCEPT !.artifactIDs = SomeIDs(ids)]

InitArtifacts ==
  /\ \E arts \in {<<>>, <<"a1">>, <<"a1", "a2">>} :
       trips = [id \in TripIDs |->
                  IF id = "t1"
                  THEN [NewDraft("t1", "m1", NormalizeHumanName("Trip"))
                          EXCEPT !.artifacts = arts]
                  ELSE NoTrip]
  /\ rsvps = [k \in TripIDs \X Members |-> NoRSVP]
  /\ idem = {}
  /\ clock = 0
  /\ byID = Provisioned
  /\ pc = [p \in Procs |-> "idle"]
  /\ req = [p \in Procs |-> NoReq]
  /\ loc = [p \in Procs |-> NoLoc]
  /\ resp = [p \in Procs |-> NoResp]

NextArtifacts ==
  \/ \E ids \in IDLists : UpdateTripCall("p1", "m1", "t1", ArtifactPatch(ids))
  \/ SaveStep("p1")
  \/ DetailsStep("p1")

SpecArtifacts == InitArtifacts /\ [][NextArtifacts]_vars

\* ---------------------------------------------------------------- SpecPg
\* The postgres backend: YES answers of m2 and m3 and the organizer's
\* CancelTrip on one published trip, two slots, every storage call its own
\* step. The trip is the row stored after m1 published it with capacity c.
InitPg ==
  /\ \E c \in Capacities :
       trips = [id \in TripIDs |->
                  IF id = "t1"
                  THEN [PublishedTrip(c) EXCEPT !.attendingRigs = NilInt,
                                                !.draftVisibility = ""]
                  ELSE NoTrip]
  /\ rsvps = [k \in TripIDs \X Members |-> NoRSVP]
  /\ idem = {}
  /\ clock = 0
  /\ byID = Provisioned
  /\ pc = [p \in Procs |-> "idle"]
  /\ req = [p \in Procs |-> NoReq]
  /\ loc = [p \in Procs |-> NoLoc]
  /\ resp = [p \in Procs |-> NoResp]

NextPg ==
  \E p \in Procs :
    \/ \E caller \in RsvpMembers :
         PgBegin(p, [Request(OpSetRSVP, caller, "t1") EXCEPT !.response = StatusYes])
    \/ PgBegin(p, Request(OpCancel, "m1", "t1"))
    \/ RsvpGetStep(p)
    \/ RsvpCountStep(p)
    \/ PgSaveStep(p)
    \/ PgRsvpUpsertStep(p)
    \/ DetailsStep(p)

SpecPg == InitPg /\ [][NextPg]_vars

\* ------------------------------------------------------------- SpecQuery
\* Reads between the steps of a trip's life cycle, one request at a time:
\* m1 creates t1, m1 and m2 change it, m2 creates t2, and every member asks
\* for the details of either trip and for the list of their drafts.
NextQuery ==
  \/ CreateTripDraftCall("p1", "m1", "Trip", "t1")
  \/ CreateTripDraftCall("p1", "m2", "Trip", "t2")
  \/ UpdateTripCall("p1", "m1", "t1", ReadyPatch(1))
  \/ \E f \in ClearableFields, blank \in BOOLEAN :
       /\ requiredPublishFieldsMissing(trips["t1"]) = <<>>
       /\ UpdateTripCall("p1", "m1", "t1", ClearPatch(f, blank))
  \/ \E dv \in Visibilities : SetTripDraftVisibilityCall("p1", "m1", "t1", dv)
  \/ \E caller \in RaceMembers, target \in RaceMembers :
       \/ AddTripOrganizerCall("p1", caller, "t1", target)
       \/ RemoveTripOrganizerCall("p1", caller, "t1", target)
  \/ \E caller \in RaceMembers :
       \/ PublishTripCall("p1", caller, "t1")
       \/ CancelTripCall("p1", caller, "t1")
  \/ \E caller \in Members, id \in TripIDs : GetTripDetailsCall("p1", caller, id)
  \/ \E caller \in Members : ListMyDraftTripsCall("p1", caller)
  \/ SaveStep("p1")
  \/ DetailsStep("p1")

SpecQuery == Init /\ [][NextQuery]_vars

\* ------------------------------------------------------------- properties
AllIdle == \A p \in Procs : pc[p] = "idle"

\* Both slots have served their request.
BothServed == AllIdle /\ \A p \in Procs : req[p] # NoReq

YesCount(id) == Cardinality({m \in Members : rsvps[<<id, m>>].status = StatusYes})

\* C1: each PUBLISHED trip has at most CapacityRigs RSVP records with
\* response YES, in every state reached by interleaved requests.
C1_YesWithinCapacity ==
  \A id \in TripIDs :
    trips[id].status = StatusPublished => YesCount(id) <= trips[id].capacityRigs

\* C2: on a published trip with capacity 1 and no YES record, of two
\* concurrent SetMyRSVP(YES) requests by different members exactly one
\* succeeds and the other is refused with 409 TRIP_AT_CAPACITY.
C2_ExactlyOneYesSucceeds ==
  (/\ BothServed
   /\ \A p \in Procs : req[p].op = OpSetRSVP /\ req[p].response = StatusYes
   /\ req["p1"].caller # req["p2"].caller
   /\ trips["t1"].capacityRigs = 1)
  => \E p \in Procs, q \in Procs :
       /\ p # q
       /\ resp[p].status = 200 /\ resp[p].rsvp.status = StatusYes
       /\ resp[q] = ErrResp(Err(409, "TRIP_AT_CAPACITY"))

\* C3: whenever no request is in flight, each PUBLISHED trip's stored
\* AttendingRigs equals the number of its RSVP records with response YES.
C3_AttendingRigsIsYesCount ==
  AllIdle =>
    \A id \in TripIDs :
      trips[id].status = StatusPublished => trips[id].attendingRigs = YesCount(id)

\* C4: a trip whose stored status is CANCELED stays CANCELED in every step,
\* whatever request, new or in flight, takes the step.
C4_CanceledIsTerminal ==
  [][\A id \in TripIDs :
       trips[id].status = StatusCanceled => trips'[id].status = StatusCanceled]_vars

\* C8: an RSVP record is created or changed only in a step taken while the
\* trip's stored status is PUBLISHED.
C8_RsvpWrittenOnlyWhilePublished ==
  [][\A id \in TripIDs, m \in Members :
       rsvps'[<<id, m>>] # rsvps[<<id, m>>] => trips[id].status = StatusPublished]_vars

\* One request served alone on trip t and RSVP records rs, from its GetByID
\* to its response: the step a sequential order is made of.
Alone(t, rs, rq) ==
  IF rq.op = OpSetRSVP
  THEN LET e == SetMyRSVPChecks(t, rq.caller, rq.response)
           existing == RsvpGet(rs, rq.tripID, rq.caller)
           newAtt == NewAttendance(existing, rq.response, CountYesByTrip(rs, rq.tripID))
       IN IF e # NoErr THEN [t |-> t, rs |-> rs, resp |-> ErrResp(e)]
          ELSE IF existing.status = rq.response
          THEN [t |-> t, rs |-> rs, resp |-> RsvpResp(existing)]
          ELSE IF AtCapacity(t, rq.response, newAtt)
          THEN [t |-> t, rs |-> rs, resp |-> ErrResp(Err(409, "TRIP_AT_CAPACITY"))]
          ELSE [t |-> [t EXCEPT !.attendingRigs = newAtt],
                rs |-> Upsert(rs, rq.tripID, rq.caller,
                              [status |-> rq.response, updatedAt |-> clock]),
                resp |-> RsvpResp([status |-> rq.response, updatedAt |-> clock])]
  ELSE LET d == Decide(rq, t)
       IN IF d.err # NoErr THEN [t |-> t, rs |-> rs, resp |-> ErrResp(d.err)]
          ELSE [t |-> IF d.write THEN d.t ELSE t, rs |-> rs,
                resp |-> TripResp(200, tripDetailsForTrip(d.t, rs))]

\* C5: when two concurrent mutating requests on one trip have been served,
\* the stored trip, the RSVP records and both responses are those of serving
\* the two requests one after the other in some order.
C5_Linearizable ==
  BothServed =>
    \E p \in Procs, q \in Procs :
      /\ p # q
      /\ LET first == Alone(PublishedTrip(trips["t1"].capacityRigs),
                            [k \in TripIDs \X Members |-> NoRSVP], req[p])
             second == Alone(first.t, first.rs, req[q])
         IN /\ trips["t1"] = second.t
            /\ rsvps = second.rs
            /\ resp[p] = first.resp
            /\ resp[q] = second.resp

\* C6: every stored trip has at least one organizer, in every state reached
\* by interleaved create, add-organizer and remove-organizer requests.
C6_AtLeastOneOrganizer ==
  \A id \in TripIDs :
    TripFound(trips[id]) => Len(trips[id].organizerMemberIDs) >= 1

\* Two removals with different targets have both passed the last-organizer
\* guard on the same two-organizer trip and are about to save.
C6_Witness ==
  /\ pc["p1"] = "save" /\ pc["p2"] = "save"
  /\ req["p1"].op = OpRemoveOrganizer /\ req["p2"].op = OpRemoveOrganizer
  /\ req["p1"].target # req["p2"].target
  /\ Len(loc["p1"].t.organizerMemberIDs) = 1
  /\ Len(loc["p2"].t.organizerMemberIDs) = 1

\* A remove-organizer request arrives at slot p (its first storage call runs).
BeganRemove(p) == pc[p] = "idle" /\ req'[p].op = OpRemoveOrganizer

\* What a removal does when it arrives: refused with LAST_ORGANIZER and
\* nothing written when the target is the only organizer, otherwise on its
\* way to save the list without the target.
RemovalOutcome(p) ==
  LET t == trips[req'[p].tripID]
      target == req'[p].target
  IN IF Len(t.organizerMemberIDs) = 1
     THEN /\ resp'[p] = ErrResp(Err(409, "LAST_ORGANIZER"))
          /\ trips' = trips
     ELSE /\ pc'[p] = "save"
          /\ loc'[p].t.organizerMemberIDs =
               SelectSeq(t.organizerMemberIDs, LAMBDA m : m # target)

\* A removal that passed the guard completes with 200 and the stored list is
\* the list it loaded without the target.
RemovalCompletes(p) ==
  (pc[p] = "details" /\ req[p].op = OpRemoveOrganizer
     /\ isOrganizerIDInSlice(loc[p].pre.organizerMemberIDs, req[p].target))
  => /\ resp'[p].status = 200
     /\ trips'[req[p].tripID].organizerMemberIDs =
          SelectSeq(loc[p].pre.organizerMemberIDs, LAMBDA m : m # req[p].target)
     /\ Len(trips'[req[p].tripID].organizerMemberIDs) >= 1

Invisible(rq) ==
  LET t == GetByID(trips, rq.tripID)
  IN ~TripFound(t) \/ ~isTripVisibleToCaller(t, rq.caller)

\* A well-formed HTTP request of a provisioned member arrives at slot p.
HttpArrives(p) ==
  /\ pc[p] = "idle" /\ req'[p].http
  /\ req'[p].caller \in Members /\ ~req'[p].nilBody

\* The trip service answers slot p with 404 TRIP_NOT_FOUND, writing nothing.
Answered404(p) ==
  /\ pc'[p] = "idle" /\ resp'[p] = ErrResp(ErrTripNotFound)
  /\ trips' = trips /\ rsvps' = rsvps

\* C10 as stated: a trip-scoped HTTP request for a trip that is not visible
\* to the caller, or does not exist, is passed to the trip service or
\* answered 404 TRIP_NOT_FOUND, and the trip service answers it 404
\* TRIP_NOT_FOUND, whatever Idempotency-Key it carries.
C10_InvisibleAlways404 ==
  [][\A p \in Procs :
       /\ (HttpArrives(p) /\ Invisible(req'[p]))
          => (pc'[p] = "load" \/ resp'[p] = ErrResp(ErrTripNotFound))
       /\ (pc[p] = "load" /\ Invisible(req[p])) => Answered404(p)]_vars

\* C10 amended: such a request is answered 404 TRIP_NOT_FOUND unless its
\* Idempotency-Key was used before by the same subject on the same method and
\* route: used with another body it is answered 409 IDEMPOTENCY_KEY_REUSE,
\* used with the same body and a recorded success it is answered with the
\* recorded response, in both cases whether or not the trip exists.
C10_InvisibleUnlessKeyKnown ==
  [][\A p \in Procs :
       /\ (HttpArrives(p) /\ Invisible(req'[p]))
          => LET rq == req'[p]
                 marker == {e \in idem : e.fp = Fingerprint(rq, NoHash)}
                 recorded == {e \in idem : e.fp = Fingerprint(rq, BodyHash(rq))}
             IN IF rq.key # NoKey /\ \E e \in marker : e.rec.hash # BodyHash(rq)
                THEN /\ pc'[p] = "idle"
                     /\ resp'[p] = ErrResp(Err(409, "IDEMPOTENCY_KEY_REUSE"))
                ELSE IF rq.key # NoKey /\ recorded # {}
                THEN pc'[p] = "idle" /\ \E e \in recorded : resp'[p] = e.rec.body
                ELSE pc'[p] = "load"
       /\ (pc[p] = "load" /\ Invisible(req[p])) => Answered404(p)]_vars

\* A request of m2 carrying a key, for the existing trip t1 that m2 cannot
\* see, has been answered 404 TRIP_NOT_FOUND by the trip service.
C10_Witness ==
  /\ pc["p1"] = "idle"
  /\ req["p1"].http /\ req["p1"].key # NoKey /\ req["p1"].tripID = "t1"
  /\ TripFound(trips["t1"]) /\ Invisible(req["p1"])
  /\ resp["p1"] = ErrResp(ErrTripNotFound)

\* C9: a stored trip has a DraftVisibility exactly when its Status is DRAFT.
C9_DraftVisibilityIffDraft ==
  \A id \in TripIDs :
    TripFound(trips[id]) =>
      ((trips[id].draftVisibility # "") <=> (trips[id].status = StatusDraft))

\* GetTripDetails arrives in this step at slot p.
DetailsArrives(p) ==
  /\ pc[p] = "idle"
  /\ req'[p].op = OpGetDetails
  /\ (req'[p] # req[p] \/ pc'[p] # pc[p] \/ resp'[p] # resp[p])

\* The visibility rule, case by case.
VisibleTo(t, c) ==
  \/ t.status = StatusPublished
  \/ t.status = StatusCanceled
  \/ /\ t.status = StatusDraft
     /\ t.draftVisibility = DraftVisibilityPublic
     /\ c \in Range(t.organizerMemberIDs)
  \/ /\ t.status = StatusDraft
     /\ t.draftVisibility = DraftVisibilityPrivate
     /\ c = t.creatorMemberID

ListArrives(p) ==
  /\ pc[p] = "idle"
  /\ req'[p].op = OpListDrafts
  /\ (req'[p] # req[p] \/ resp'[p] # resp[p])

\* Service.GetTripDetails(c, id) called in this state gets past its checks.
DetailsSucceeds(c, id) ==
  LET t == GetByID(trips, id)
  IN TripFound(t) /\ Decide(Request(OpGetDetails, c, id), t).err = NoErr

\* C12: whenever ListMyDraftTrips(c) is answered, each stored DRAFT trip is in
\* the answer exactly when GetTripDetails(c, that trip) succeeds in the same
\* state.
C12_ListedIffDetailsSucceeds ==
  [][\A p \in Procs :
       ListArrives(p) =>
         /\ resp'[p].status = 200
         /\ \A id \in TripIDs :
              trips[id].status = StatusDraft =>
                ((\E i \in DOMAIN resp'[p].list : resp'[p].list[i].id = id)
                   <=> DetailsSucceeds(req'[p].caller, id))]_vars

\* m2 has listed two drafts, its own private t2 and the public t1 it
\* organizes, while m1's list of the same state would leave t2 out.
C12_Witness ==
  /\ pc["p1"] = "idle"
  /\ req["p1"].op = OpListDrafts
  /\ req["p1"].caller = "m2"
  /\ Len(resp["p1"].list) = 2
  /\ trips["t1"].draftVisibility = DraftVisibilityPublic
  /\ ~DetailsSucceeds("m1", "t2")
\* PublishTrip arrives in this step at slot p.
PublishArrives(p) ==
  /\ pc[p] = "idle"
  /\ req'[p].op = OpPublish
  /\ (req'[p] # req[p] \/ pc'[p] # pc[p] \/ resp'[p] # resp[p])

\* Slot p, serving PublishTrip by an organizer, loaded trip id as a PUBLIC
\* draft with every required field and stores it in this step.
PublishSaves(p, id) ==
  /\ pc[p] = "save" /\ pc'[p] = "details"
  /\ req[p].op = OpPublish /\ req[p].tripID = id
  /\ req[p].caller \in Range(loc[p].pre.organizerMemberIDs)
  /\ loc[p].pre.status = StatusDraft
  /\ loc[p].pre.draftVisibility = DraftVisibilityPublic
  /\ requiredPublishFieldsMissing(loc[p].pre) = <<>>

\* C13: a step changes a trip's stored status to PUBLISHED only if it is the
\* save of a PublishTrip call by an organizer that found the trip a PUBLIC
\* draft with every required field; and PublishTrip arriving on a PRIVATE
\* draft is answered 409 TRIP_PRIVATE_DRAFT and stores nothing.
C13_PublishedOnlyByPublish ==
  [][/\ \A id \in TripIDs :
          (trips[id].status # StatusPublished /\ trips'[id].status = StatusPublished)
            => \E p \in Procs : PublishSaves(p, id)
     /\ \A p \in Procs :
          (/\ PublishArrives(p)
           /\ trips[req'[p].tripID].status = StatusDraft
           /\ trips[req'[p].tripID].draftVisibility = DraftVisibilityPrivate
           /\ req'[p].caller = trips[req'[p].tripID].creatorMemberID
           /\ req'[p].caller \in Range(trips[req'[p].tripID].organizerMemberIDs))
            => /\ pc'[p] = "idle"
               /\ resp'[p] = ErrResp(Err(409, "TRIP_PRIVATE_DRAFT"))
               /\ trips' = trips]_vars

\* The required-to-publish fields, and what it is for trip t to have field f.
RequiredFields == ClearableFields \cup {"name", "organizers"}

HasField(t, f) ==
  LET text(v) == v # NilStr /\ v # "" /\ v # Blank
  IN CASE f = "name" -> text(t.name)
       [] f = "description" -> text(t.description)
       [] f = "startDate" -> t.startDate # NilInt
       [] f = "endDate" -> t.endDate # NilInt
       [] f = "capacityRigs" -> t.capacityRigs # NilInt /\ t.capacityRigs >= 1
       [] f = "difficultyText" -> text(t.difficultyText)
       [] f = "meetingLocation" ->
            ~t.meetingLocation.isNil /\ text(t.meetingLocation.label)
       [] f = "commsRequirementsText" -> text(t.commsRequirementsText)
       [] f = "recommendedRequirementsText" -> text(t.recommendedRequirementsText)
       [] OTHER -> t.organizerMemberIDs # <<>>

\* Trip t is a PUBLIC draft that has every required field except f.
LacksOnly(t, f) ==
  /\ t.status = StatusDraft
  /\ t.draftVisibility = DraftVisibilityPublic
  /\ ~HasField(t, f)
  /\ \A g \in RequiredFields \ {f} : HasField(t, g)

\* C14: PublishTrip by an organizer arriving on a PUBLIC draft that has every
\* required field except f is answered 409 TRIP_NOT_READY_TO_PUBLISH with f
\* in the missing list, and the stored trip stays the same DRAFT.
C14_MissingFieldReported ==
  [][\A p \in Procs, f \in RequiredFields :
       (/\ PublishArrives(p)
        /\ LacksOnly(trips[req'[p].tripID], f)
        /\ req'[p].caller \in Range(trips[req'[p].tripID].organizerMemberIDs))
         => /\ pc'[p] = "idle"
            /\ resp'[p].status = 409
            /\ resp'[p].code = "TRIP_NOT_READY_TO_PUBLISH"
            /\ f \in Range(resp'[p].missing)
            /\ trips' = trips
            /\ trips'[req'[p].tripID].status = StatusDraft]_vars

\* PublishTrip by the organizer m2 has been refused on a PUBLIC draft whose
\* only missing field is the end date.
C14_Witness ==
  /\ pc["p1"] = "idle"
  /\ req["p1"].op = OpPublish
  /\ req["p1"].caller = "m2"
  /\ LacksOnly(trips["t1"], "endDate")
  /\ resp["p1"].code = "TRIP_NOT_READY_TO_PUBLISH"
  /\ resp["p1"].missing = <<"endDate">>

\* The announcement copy PublishTrip returns for the local trip t.
CopyOf(t) == announcementCopyFromTrip(tripDetailsForTrip(t, rsvps))

\* C15: when PublishTrip has succeeded and the same organizer calls it again
\* on the same trip, the second call stores nothing and succeeds with the
\* announcement copy the first call returned.
C15_PublishTwiceSameCopy ==
  [][\A p \in Procs :
       /\ (/\ PublishArrives(p)
           /\ req[p] = req'[p]
           /\ resp[p].status = 200)
            => /\ pc'[p] = "details"
               /\ trips' = trips
               /\ loc'[p].t = trips[req[p].tripID]
               /\ CopyOf(loc'[p].t) = resp[p].copy
       /\ (pc[p] = "details" /\ req[p].op = OpPublish)
            => /\ pc'[p] = "idle"
               /\ trips' = trips
               /\ resp'[p].status = 200
               /\ resp'[p].copy = CopyOf(loc[p].t)
               /\ resp'[p].copy # <<>>]_vars

\* PublishTrip by the organizer m2 is being served on a trip it found
\* PUBLISHED, and the copy it is about to return names the trip's capacity.
C15_Witness ==
  /\ pc["p1"] = "details"
  /\ req["p1"].op = OpPublish
  /\ req["p1"].caller = "m2"
  /\ loc["p1"].pre.status = StatusPublished
  /\ \E i \in DOMAIN CopyOf(loc["p1"].t) :
        CopyOf(loc["p1"].t)[i].fmt = "Capacity: %d rigs"

\* A request of operation op arrives in this step at slot p.
Arrives(p, op) ==
  /\ pc[p] = "idle"
  /\ req'[p].op = op
  /\ (req'[p] # req[p] \/ pc'[p] # pc[p] \/ resp'[p] # resp[p])

\* C17: CancelTrip by an organizer on a trip stored as CANCELED succeeds
\* with the canceled trip, and from its arrival to its answer no step
\* changes the stored trip, UpdatedAt included.
C17_CancelAgainIsNoOp ==
  [][\A p \in Procs :
       /\ (/\ Arrives(p, OpCancel)
           /\ trips[req'[p].tripID].status = StatusCanceled
           /\ req'[p].caller \in Range(trips[req'[p].tripID].organizerMemberIDs))
            => pc'[p] = "details" /\ trips' = trips
       /\ (/\ pc[p] # "idle" /\ pc'[p] # pc[p]
           /\ req[p].op = OpCancel
           /\ loc[p].pre.status = StatusCanceled)
            => /\ pc'[p] = "idle"
               /\ trips' = trips
               /\ resp'[p].status = 200
               /\ resp'[p].trip.status = StatusCanceled]_vars

\* A second CancelTrip is being served on the canceled trip at a later
\* time than the one the first cancel stored.
C17_Witness ==
  /\ pc["p1"] = "details"
  /\ req["p1"].op = OpCancel
  /\ loc["p1"].pre.status = StatusCanceled
  /\ trips["t1"].status = StatusCanceled
  /\ clock > trips["t1"].updatedAt

\* The stored RSVP of the caller of slot p's request, and of the caller of
\* the request that arrives at slot p in this step.
Mine(p) == rsvps[<<req[p].tripID, req[p].caller>>]
MineNext(p) == rsvps[<<req'[p].tripID, req'[p].caller>>]

\* SetMyRSVP(x) is answered in this step with the caller's stored record,
\* and nothing is written.
AnsweredUnchanged(p) ==
  /\ pc'[p] = "idle"
  /\ resp'[p].status = 200
  /\ resp'[p].rsvp = Mine(p)
  /\ UNCHANGED <<trips, rsvps>>

\* C18 as stated: SetMyRSVP(x) by a member whose stored RSVP has response x
\* gets as far as reading that record, whatever the trip's status, and is
\* then answered with it, UpdatedAt unchanged, nothing written.
C18_SameResponseAlwaysNoOp ==
  [][\A p \in Procs :
       /\ (Arrives(p, OpSetRSVP) /\ MineNext(p).status = req'[p].response)
            => pc'[p] = "rsvp_get" /\ UNCHANGED <<trips, rsvps>>
       /\ (pc[p] = "rsvp_get" /\ pc'[p] # pc[p] /\ Mine(p).status = req[p].response)
            => AnsweredUnchanged(p)]_vars

\* C18, amended: on a trip that is PUBLISHED with its capacity set,
\* SetMyRSVP(x) by a member whose stored RSVP has response x is answered
\* 200 with the stored record, UpdatedAt unchanged, and the RSVP record and
\* the trip, AttendingRigs and UpdatedAt included, stay as they were; on a
\* trip that is no longer PUBLISHED it is refused and nothing is written.
C18_SameResponseNoOpWhilePublished ==
  [][\A p \in Procs :
       /\ (Arrives(p, OpSetRSVP) /\ MineNext(p).status = req'[p].response)
            => /\ UNCHANGED <<trips, rsvps>>
               /\ IF /\ trips[req'[p].tripID].status = StatusPublished
                     /\ trips[req'[p].tripID].capacityRigs >= 1
                  THEN pc'[p] = "rsvp_get"
                  ELSE pc'[p] = "idle" /\ resp'[p].status = 409
       /\ (pc[p] = "rsvp_get" /\ pc'[p] # pc[p] /\ Mine(p).status = req[p].response)
            => AnsweredUnchanged(p)]_vars

\* m2 has sent YES again at a later time than its stored YES and has been
\* answered with the stored record.
C18_Witness ==
  /\ pc["p1"] = "idle"
  /\ req["p1"].op = OpSetRSVP
  /\ req["p1"].caller = "m2"
  /\ req["p1"].response = StatusYes
  /\ resp["p1"].status = 200
  /\ resp["p1"].rsvp = rsvps[<<"t1", "m2">>]
  /\ rsvps[<<"t1", "m2">>].updatedAt < clock
  /\ trips["t1"].updatedAt < clock

\* C19: with requests served one at a time on a PUBLISHED trip, SetMyRSVP
\* that changes the caller's response goes through every step to a 200 and
\* the new record, unless it asks for YES while the YES count has reached
\* CapacityRigs: then it is refused 409 TRIP_AT_CAPACITY and nothing is
\* written. NO and UNSET are never refused, so a YES member switching away
\* lowers the count and the next YES is accepted.
C19_CapacityRule ==
  [][\A p \in Procs :
       /\ (/\ Arrives(p, OpSetRSVP)
           /\ trips[req'[p].tripID].status = StatusPublished
           /\ trips[req'[p].tripID].capacityRigs >= 1)
            => pc'[p] = "rsvp_get"
       /\ (/\ req[p].op = OpSetRSVP
           /\ pc[p] # "idle" /\ pc'[p] # pc[p]
           /\ Mine(p).status # req[p].response)
            => IF /\ req[p].response = StatusYes
                  /\ YesCount(req[p].tripID) >= trips[req[p].tripID].capacityRigs
               THEN /\ UNCHANGED <<trips, rsvps>>
                    /\ \/ pc[p] = "rsvp_get" /\ pc'[p] = "rsvp_count"
                       \/ /\ pc[p] = "rsvp_count" /\ pc'[p] = "idle"
                          /\ resp'[p] = ErrResp(Err(409, "TRIP_AT_CAPACITY"))
               ELSE \/ pc[p] = "rsvp_get" /\ pc'[p] = "rsvp_count"
                    \/ pc[p] = "rsvp_count" /\ pc'[p] = "save"
                    \/ pc[p] = "save" /\ pc'[p] = "rsvp_upsert"
                    \/ /\ pc[p] = "rsvp_upsert" /\ pc'[p] = "idle"
                       /\ resp'[p].status = 200
                       /\ resp'[p].rsvp.status = req[p].response
                       /\ rsvps'[<<req[p].tripID, req[p].caller>>].status = req[p].response
                       /\ YesCount(req[p].tripID)' <= trips[req[p].tripID].capacityRigs]_vars

\* m2's YES has been refused on the trip of capacity 1 while m1 holds YES,
\* after m3 gave its YES up: m3's record is NO.
C19_Witness ==
  /\ pc["p1"] = "idle"
  /\ req["p1"].op = OpSetRSVP /\ req["p1"].caller = "m2"
  /\ req["p1"].response = StatusYes
  /\ resp["p1"].code = "TRIP_AT_CAPACITY"
  /\ trips["t1"].status = StatusPublished
  /\ trips["t1"].capacityRigs = 1
  /\ rsvps[<<"t1", "m1">>].status = StatusYes
  /\ rsvps[<<"t1", "m3">>].status = StatusNo
  /\ rsvps[<<"t1", "m3">>].updatedAt < rsvps[<<"t1", "m1">>].updatedAt

\* C20: when the request that a slot has just served, AddTripOrganizer or
\* RemoveTripOrganizer, is called again with the same caller, trip and
\* target, the second call goes straight to its answer: it stores nothing, so
\* the trip's organizers are those left by the first call, and it returns
\* them.
C20_SecondCallWritesNothing ==
  [][\A p \in Procs :
       /\ (/\ pc[p] = "idle" /\ pc'[p] # "idle"
           /\ req'[p] = req[p]
           /\ req[p].op \in {OpAddOrganizer, OpRemoveOrganizer})
            => /\ pc'[p] = "details"
               /\ trips' = trips
               /\ loc'[p].t = trips[req[p].tripID]
       /\ (/\ pc[p] = "details" /\ pc'[p] # pc[p]
           /\ req[p].op \in {OpAddOrganizer, OpRemoveOrganizer}
           /\ loc[p].t = loc[p].pre)
            => /\ trips' = trips
               /\ resp'[p].status = 200
               /\ resp'[p].trip.organizers = trips[req[p].tripID].organizerMemberIDs]_vars

\* A second AddTripOrganizer(m2) by m1 is being served: it found m2 among
\* the organizers and has nothing to store.
C20_Witness ==
  /\ pc["p1"] = "details"
  /\ req["p1"].op = OpAddOrganizer
  /\ req["p1"].caller = "m1" /\ req["p1"].target = "m2"
  /\ loc["p1"].t = loc["p1"].pre
  /\ loc["p1"].pre = trips["t1"]
  /\ "m2" \in Range(trips["t1"].organizerMemberIDs)

\* A request with an Idempotency-Key arrives in this step at slot p, from a
\* provisioned member and with its body.
KeyedArrives(p) ==
  /\ pc[p] = "idle"
  /\ req'[p].http /\ req'[p].key # NoKey
  /\ req'[p].caller \in Members /\ ~req'[p].nilBody
  /\ (req'[p] # req[p] \/ pc'[p] # pc[p] \/ resp'[p] # resp[p])

\* The body hashes under which earlier requests registered the key, subject,
\* method and route of rq.
RegisteredHashes(rq) == {e.rec.hash : e \in {x \in idem : x.fp = Fingerprint(rq, NoHash)}}

\* C21: a request that arrives when an earlier request has registered its
\* key, subject, method and route with a different canonical body hash is
\* answered 409 IDEMPOTENCY_KEY_REUSE at once, and its use case is not
\* executed: no trip, RSVP or idempotency entry is written.
C21_ReusedKeyRejected ==
  [][\A p \in Procs :
       (KeyedArrives(p) /\ \E h \in RegisteredHashes(req'[p]) : h # BodyHash(req'[p]))
       => /\ pc'[p] = "idle"
          /\ resp'[p] = ErrResp(Err(409, "IDEMPOTENCY_KEY_REUSE"))
          /\ trips' = trips /\ rsvps' = rsvps /\ idem' = idem]_vars

\* m1 created a trip with POST /trips under key k1, then sent POST /trips
\* under k1 with a name that normalizes differently: the second request was
\* answered 409 IDEMPOTENCY_KEY_REUSE and one trip exists.
C21_Witness ==
  /\ pc["p1"] = "idle" /\ pc["p2"] = "idle"
  /\ req["p1"].op = OpCreate /\ req["p2"].op = OpCreate
  /\ req["p1"].caller = "m1" /\ req["p2"].caller = "m1"
  /\ req["p1"].key = "k1" /\ req["p2"].key = "k1"
  /\ BodyHash(req["p1"]) # BodyHash(req["p2"])
  /\ resp["p1"].status = 201
  /\ resp["p2"] = ErrResp(Err(409, "IDEMPOTENCY_KEY_REUSE"))
  /\ Cardinality({id \in TripIDs : TripFound(trips[id])}) = 1

\* The responses recorded under the fingerprint of rq.
RecordedFor(store, rq) ==
  {e.rec : e \in {x \in store : x.fp = Fingerprint(rq, BodyHash(rq)) /\ x.rec.statusCode # 0}}

\* C22: all successful responses to requests with one idempotency
\* fingerprint have the same status and body, whatever happened to the trip
\* in between: a successful response to a keyed request is returned only
\* together with its recording under the fingerprint, with the status and
\* body returned; a recorded response is never changed or removed; and a
\* request arriving when its fingerprint has a recorded response is answered
\* with exactly that status and body, no trip or RSVP being written.
C22_SameFingerprintSameResponse ==
  [][\A p \in Procs :
       /\ \A e \in idem : e.rec.statusCode # 0 => e \in idem'
       /\ (pc[p] # "idle" /\ pc'[p] = "idle" /\ req[p].http /\ req[p].key # NoKey
             /\ resp'[p].status \in {200, 201})
          => /\ pc[p] = "idem_put"
             /\ \E r \in RecordedFor(idem', req[p]) :
                  r.statusCode = resp'[p].status /\ r.body = resp'[p]
       /\ (KeyedArrives(p) /\ RecordedFor(idem, req'[p]) # {})
          => /\ pc'[p] = "idle"
             /\ \E r \in RecordedFor(idem, req'[p]) :
                  r.statusCode = resp'[p].status /\ r.body = resp'[p]
             /\ trips' = trips /\ rsvps' = rsvps]_vars

\* m2 sent PUT /trips/t1/rsvp with YES under key k1 twice; the trip was
\* canceled in between, and the second request was still answered 200 with
\* the recorded YES.
C22_Witness ==
  /\ pc["p1"] = "idle"
  /\ req["p1"].http /\ req["p1"].op = OpSetRSVP /\ req["p1"].key = "k1"
  /\ req["p1"].tripID = "t1"
  /\ trips["t1"].status = StatusCanceled
  /\ resp["p1"].status = 200 /\ resp["p1"].rsvp.status = StatusYes
  /\ \E r \in RecordedFor(idem, req["p1"]) : r.body = resp["p1"]

\* C23: requests with one idempotency fingerprint take effect at most once,
\* also when they are served concurrently: any two POST /trips requests
\* with the same fingerprint that were answered 201 were answered with the
\* same trip ID.
C23_OneTripPerFingerprint ==
  \A p, q \in Procs :
    (/\ pc[p] = "idle" /\ pc[q] = "idle"
     /\ req[p].http /\ req[q].http
     /\ req[p].op = OpCreate /\ req[q].op = OpCreate
     /\ Fingerprint(req[p], BodyHash(req[p])) = Fingerprint(req[q], BodyHash(req[q]))
     /\ resp[p].status = 201 /\ resp[q].status = 201)
    => resp[p].trip.id = resp[q].trip.id

\* C24: only successful executions are recorded for replay. An entry is
\* added to the idempotency store only as the marker of a key or, by a
\* request whose use case succeeded, as its 200 or 201 response; a request
\* answered with a failure leaves the store as it was; and a request that
\* finds no recorded response under its fingerprint goes on to execute its
\* use case.
C24_OnlySuccessRecorded ==
  [][/\ \A e \in idem' \ idem :
          \/ e.rec.statusCode = 0
          \/ /\ e.rec.statusCode \in {200, 201}
             /\ \E p \in Procs : pc[p] = "idem_put" /\ e.rec.body = resp'[p]
     /\ \A p \in Procs :
          /\ (pc[p] # "idle" /\ pc'[p] = "idle" /\ resp'[p].status \notin {200, 201})
             => idem' = idem
          /\ (pc[p] = "idem_resp" /\ pc'[p] # pc[p] /\ RecordedFor(idem, req[p]) = {})
             => pc'[p] \in {"load", "create"}]_vars

\* m2 sent PUT /trips/t1/rsvp with YES under key k1 while t1 was a draft of
\* other organizers and was answered 404 TRIP_NOT_FOUND; after the trip was
\* published the same request was answered 200 with the YES it stored.
C24_Witness ==
  /\ pc["p1"] = "idle" /\ pc["p2"] = "idle"
  /\ req["p1"].http /\ req["p1"].op = OpSetRSVP /\ req["p1"].key = "k1"
  /\ req["p2"] = req["p1"]
  /\ resp["p1"] = ErrResp(ErrTripNotFound)
  /\ resp["p2"].status = 200 /\ resp["p2"].rsvp.status = StatusYes
  /\ rsvps[<<"t1", req["p2"].caller>>].status = StatusYes
  /\ \E r \in RecordedFor(idem, req["p2"]) : r.body = resp["p2"]

\* The idempotency entries of the key, subject, method and route of rq.
OwnEntries(rq) ==
  {e \in idem : /\ e.fp.key = rq.key /\ e.fp.subject = rq.caller
                /\ e.fp.method = Method(rq.op) /\ e.fp.route = Route(rq.op)}

\* C25: idempotency entries are scoped by subject, method and route. A keyed
\* request is rejected with 409 IDEMPOTENCY_KEY_REUSE, or answered from the
\* store, only on account of an entry its own subject made under that key,
\* method and route: with no such entry it goes on to register the key,
\* whatever other subjects did with the key, and a replayed POST /trips
\* response names a trip its own subject created.
C25_ScopedBySubject ==
  [][\A p \in Procs :
       /\ (KeyedArrives(p) /\ OwnEntries(req'[p]) = {}) => pc'[p] = "idem_mark"
       /\ (pc[p] = "idem_resp" /\ pc'[p] = "idle")
          => /\ \E e \in OwnEntries(req[p]) : e.rec.body = resp'[p]
             /\ req[p].op = OpCreate
                => trips[resp'[p].trip.id].creatorMemberID = req[p].caller]_vars

\* m1 and m2 each sent POST /trips under the same key k1 with the same
\* name: both were answered 201, each with a trip of its own.
C25_Witness ==
  /\ pc["p1"] = "idle" /\ pc["p2"] = "idle"
  /\ req["p1"].op = OpCreate /\ req["p2"].op = OpCreate
  /\ req["p1"].caller = "m1" /\ req["p2"].caller = "m2"
  /\ req["p1"].key = "k1" /\ req["p2"].key = "k1"
  /\ req["p1"].name = req["p2"].name
  /\ resp["p1"].status = 201 /\ resp["p2"].status = 201
  /\ resp["p1"].trip.id # resp["p2"].trip.id
  /\ trips[resp["p1"].trip.id].creatorMemberID = "m1"
  /\ trips[resp["p2"].trip.id].creatorMemberID = "m2"
  /\ Cardinality(idem) = 4

\* The IDs of the stored members bound to the subject.
BoundTo(ms, subject) == {id \in DOMAIN ms : ms[id].id # "" /\ ms[id].subject = subject}

\* Slot p's CreateMyMember request is answered in this step.
CreateMemberAnswered(p) ==
  /\ req'[p].op = OpCreateMember
  /\ pc'[p] = "idle"
  /\ (pc[p] # "idle" \/ req'[p] # req[p] \/ resp'[p] # resp[p])

C28_EmailsUniqueIgnoringCase ==
  \A a, b \in DOMAIN byID :
    (a # b /\ MemberFound(byID[a]) /\ MemberFound(byID[b]))
    => ToLower(byID[a].email) # ToLower(byID[b].email)

\* The canonical form of a request body as the specification defines it:
\* names normalized, email addresses trimmed and in lower case.
CanonicalBody(h) == [h EXCEPT !.name = NormalizeHumanName(@), !.email = ToLower(TrimSpace(@))]

\* C26: two request bodies that differ only in what canonicalization removes
\* (whitespace runs and padding in names; letter case and surrounding
\* whitespace in email addresses) have the same BodyHash: a request arriving
\* when an earlier request registered its key, subject, method and route
\* with a body of the same canonical form is not rejected with
\* 409 IDEMPOTENCY_KEY_REUSE.
C26_CanonicalBodiesShareHash ==
  [][\A p \in Procs :
       (/\ KeyedArrives(p)
        /\ \E h \in RegisteredHashes(req'[p]) :
             CanonicalBody(h) = CanonicalBody(BodyHash(req'[p])))
       => resp'[p] # ErrResp(Err(409, "IDEMPOTENCY_KEY_REUSE"))]_vars

\* C29: the in-memory and the relational RSVP repository are observationally
\* equivalent. From every stored state the trip service reaches, holding the
\* same trips and RSVPs in both backends, Upsert of any member's response,
\* stamped with the current time, returns the same error and leaves the
\* same rows stored in both.
C29_BackendsAgreeOnUpsert ==
  \A memberID \in Members, response \in {StatusYes, StatusNo, StatusUnset} :
    LET rec == [status |-> response, updatedAt |-> clock]
    IN PgUpsert(trips, rsvps, "t1", memberID, rec, clock)
         = [err |-> "", rs |-> Upsert(rsvps, "t1", memberID, rec)]

\* C30: an UpdateTrip that arrives for a PUBLISHED trip while no other request
\* is in flight, and sets CapacityRigs below the number of YES RSVP records
\* the trip has at that moment, is answered 409 CAPACITY_BELOW_ATTENDANCE and
\* leaves the stored trip unchanged.
C30_CapacityBelowYesCountRefused ==
  [][\A p \in Procs :
       (/\ Arrives(p, OpUpdate)
        /\ \A q \in Procs : pc[q] = "idle"
        /\ trips[req'[p].tripID].status = StatusPublished
        /\ req'[p].in.capacityRigs.specified
        /\ req'[p].in.capacityRigs.value
             < CountYesByTrip(rsvps, req'[p].tripID))
       => /\ resp'[p] = ErrResp(Err(409, "CAPACITY_BELOW_ATTENDANCE"))
          /\ trips' = trips]_vars

\* The capability an operation requires of its caller on trip t.
HoldsCapability(t, rq) ==
  CASE rq.op = OpCreate -> rq.caller \in Members
    [] rq.op = OpUpdate ->
         \/ /\ t.status = StatusDraft
            /\ t.draftVisibility = DraftVisibilityPrivate
            /\ t.creatorMemberID = rq.caller
         \/ /\ t.status = StatusDraft
            /\ t.draftVisibility = DraftVisibilityPublic
            /\ rq.caller \in Range(t.organizerMemberIDs)
         \/ /\ t.status = StatusPublished
            /\ rq.caller \in Range(t.organizerMemberIDs)
    [] rq.op = OpSetVisibility -> TripFound(t) /\ t.creatorMemberID = rq.caller
    [] rq.op \in {OpAddOrganizer, OpRemoveOrganizer, OpCancel, OpPublish} ->
         TripFound(t) /\ rq.caller \in Range(t.organizerMemberIDs)
    [] rq.op = OpSetRSVP -> t.status = StatusPublished /\ rq.caller \in Members
    [] OTHER -> FALSE

MutatingOps ==
  {OpUpdate, OpSetVisibility, OpAddOrganizer, OpRemoveOrganizer, OpCancel,
   OpPublish, OpSetRSVP}

\* C31: a step changes the stored trips only on behalf of a request whose
\* caller holds, on the trip as stored at that step, the capability its
\* operation requires (creator for a PRIVATE draft's update and for draft
\* visibility; organizer for a PUBLIC draft's or PUBLISHED trip's update and
\* for publish, cancel, add and remove organizer; a member for an RSVP on a
\* PUBLISHED trip); a mutating request of any other caller is answered with
\* an error at once and changes neither trips nor RSVP records.
C31_ChangesOnlyByCapability ==
  [][/\ trips' # trips =>
          \E p \in Procs :
            /\ pc[p] = "save" \/ Arrives(p, OpCreate)
            /\ HoldsCapability(trips[req'[p].tripID], req'[p])
     /\ \A p \in Procs :
          ((\E op \in MutatingOps : Arrives(p, op))
           /\ ~HoldsCapability(trips[req'[p].tripID], req'[p]))
          => /\ pc'[p] = "idle"
             /\ resp'[p].code # ""
             /\ resp'[p].status \notin {200, 201}
             /\ trips' = trips
             /\ rsvps' = rsvps]_vars

\* m2, an organizer but not the creator, has been refused the update of the
\* PRIVATE draft, and the creator m1 has been allowed to save one.
C31_Witness ==
  /\ trips["t1"].status = StatusDraft
  /\ trips["t1"].draftVisibility = DraftVisibilityPrivate
  /\ trips["t1"].creatorMemberID = "m1"
  /\ trips["t1"].organizerMemberIDs = <<"m1", "m2">>
  /\ trips["t1"].description = "d"
  /\ req["p1"].op = OpUpdate
  /\ req["p1"].caller = "m2"
  /\ resp["p1"] = ErrResp(ErrTripNotFound)

\* A step of slot p: its request arrives, moves on or is answered.
StepOf(p) == pc'[p] # pc[p] \/ req'[p] # req[p] \/ resp'[p] # resp[p]

\* C32: no step of an HTTP request, other than provisioning, whose subject
\* has no bound member changes the members, trips, RSVP records or
\* idempotency entries, and the request is answered 401
\* MEMBER_NOT_PROVISIONED.
C32_UnboundSubjectRefused ==
  [][\A p \in Procs :
       (/\ StepOf(p)
        /\ req'[p].http
        /\ req'[p].op # OpCreateMember
        /\ ~MemberFound(GetBySubject(byID, req'[p].caller)))
       => /\ UNCHANGED <<byID, trips, rsvps, idem>>
          /\ pc'[p] = "idle" => resp'[p] = ErrResp(Err(401, "MEMBER_NOT_PROVISIONED"))]_vars

\* C33: a successful CreateTripDraft by member c stores, under the ID it
\* returns, a PRIVATE draft with c as creator and only organizer; the
\* GetTripDetails(c, that ID) called next gets past its checks; and every
\* GetTripDetails is answered 200 with the status and organizers of the
\* stored trip and, for a draft, its draft visibility.
C33_CreateThenGetDetails ==
  [][\A p \in Procs :
       /\ (Arrives(p, OpCreate) /\ resp'[p].status = 201) =>
            LET t == trips'[resp'[p].trip.id]
            IN /\ resp'[p].trip.id \in TripIDs
               /\ ~TripFound(trips[resp'[p].trip.id])
               /\ t.status = StatusDraft
               /\ t.draftVisibility = DraftVisibilityPrivate
               /\ t.creatorMemberID = req'[p].caller
               /\ t.organizerMemberIDs = <<req'[p].caller>>
       /\ (/\ DetailsArrives(p)
           /\ req[p].op = OpCreate
           /\ resp[p].status = 201
           /\ req'[p].caller = req[p].caller
           /\ req'[p].tripID = resp[p].trip.id) => pc'[p] = "details"
       /\ (pc[p] = "details" /\ req[p].op = OpGetDetails) =>
            LET t == trips[req[p].tripID]
            IN /\ pc'[p] = "idle"
               /\ resp'[p].status = 200
               /\ resp'[p].trip.id = t.id
               /\ resp'[p].trip.status = t.status
               /\ t.status = StatusDraft =>
                    resp'[p].trip.draftVisibility = t.draftVisibility
               /\ resp'[p].trip.organizers = t.organizerMemberIDs]_vars

\* m2 has created t2, which no request changes afterwards, and has read it.
C33_Witness ==
  /\ pc["p1"] = "idle"
  /\ req["p1"].op = OpGetDetails
  /\ req["p1"].caller = "m2"
  /\ req["p1"].tripID = "t2"
  /\ trips["t2"].creatorMemberID = "m2"
  /\ resp["p1"].status = 200
  /\ resp["p1"].trip.status = StatusDraft
  /\ resp["p1"].trip.draftVisibility = DraftVisibilityPrivate
  /\ resp["p1"].trip.organizers = <<"m2">>

\* C34: no stored trip's organizer list contains a member twice.
C34_NoDuplicateOrganizers ==
  \A id \in TripIDs :
    LET ids == trips[id].organizerMemberIDs
    IN \A i, j \in DOMAIN ids : ids[i] = ids[j] => i = j

\* Both slots have added m2 to t1, and both were answered 200.
C34_Witness ==
  /\ AllIdle
  /\ \A p \in Procs :
       /\ req[p].op = OpAddOrganizer
       /\ req[p].target = "m2"
       /\ resp[p].status = 200
  /\ trips["t1"].organizerMemberIDs = <<"m1", "m2">>

\* The list ids names only artifacts of the list existing, none of them twice.
PermutationOfSubset(ids, existing) ==
  /\ \A i \in DOMAIN ids : ids[i] \in Range(existing)
  /\ \A i, j \in DOMAIN ids : ids[i] = ids[j] => i = j

\* C35: an UpdateTrip with an artifact ID list goes on to save the listed
\* artifacts in the given order exactly when the list is a permutation of a
\* subset of the trip's current artifact IDs; otherwise it is answered 422
\* VALIDATION_ERROR and the stored trips do not change; and the Save stores
\* the artifacts the request has listed.
C35_ArtifactListValidated ==
  [][\A p \in Procs :
       /\ (/\ Arrives(p, OpUpdate)
           /\ req'[p].in.artifactIDs.specified
           /\ ~req'[p].in.artifactIDs.isNull) =>
            LET ids == req'[p].in.artifactIDs.value
            IN IF PermutationOfSubset(ids, trips[req'[p].tripID].artifacts)
               THEN pc'[p] = "save" /\ loc'[p].t.artifacts = ids
               ELSE /\ pc'[p] = "idle"
                    /\ resp'[p] = ErrResp(Err(422, "VALIDATION_ERROR"))
                    /\ trips' = trips
       /\ (/\ pc[p] = "save"
           /\ req[p].op = OpUpdate
           /\ req[p].in.artifactIDs.specified
           /\ ~req[p].in.artifactIDs.isNull) =>
            trips'[req[p].tripID].artifacts = req[p].in.artifactIDs.value]_vars

\* C36: every stored PUBLISHED trip has all its required-to-publish fields,
\* and its CapacityRigs is set and at least 1.
C36_PublishedKeepsRequiredFields ==
  \A id \in TripIDs :
    trips[id].status = StatusPublished =>
      /\ requiredPublishFieldsMissing(trips[id]) = <<>>
      /\ trips[id].capacityRigs # NilInt
      /\ trips[id].capacityRigs >= 1

\* C37: a trip-service request that is answered with an error has not run
\* trips.Save or rsvps.Upsert before (a SetMyRSVP past its Save is at its
\* Upsert), and the step that answers it changes neither the stored trips
\* nor the RSVP records.
C37_ErrorWritesNothing ==
  [][\A p \in Procs :
       (/\ StepOf(p)
        /\ pc'[p] = "idle"
        /\ resp'[p].status \notin {200, 201})
       => /\ pc[p] # "rsvp_upsert"
          /\ trips' = trips
          /\ rsvps' = rsvps]_vars

\* C38: the trips.Save of a SetMyRSVP changes, on the stored trip, nothing
\* but AttendingRigs and UpdatedAt: every other field stays as the last
\* organizer operation stored it.
C38_RsvpSaveChangesOnlyAttendance ==
  [][\A p \in Procs :
       (pc[p] = "save" /\ req[p].op = OpSetRSVP /\ pc'[p] = "rsvp_upsert") =>
         LET id == req[p].tripID
         IN /\ trips'[id] = [trips[id] EXCEPT !.attendingRigs = trips'[id].attendingRigs,
                                               !.updatedAt = trips'[id].updatedAt]
            /\ \A other \in TripIDs \ {id} : trips'[other] = trips[other]]_vars

\* C39: in every state each stored trip that is not canceled has at least
\* one organizer to whom the trip is visible, so that some member can publish
\* or cancel it.
C39_VisibleOrganizerExists ==
  \A id \in TripIDs :
    (trips[id] # NoTrip /\ trips[id].status # StatusCanceled) =>
      \E m \in Members :
        /\ isOrganizer(trips[id], m)
        /\ isTripVisibleToCaller(trips[id], m)

\* C16: once a trip's stored status is PUBLISHED, no step, of a new request
\* or of one already in flight, stores it as a DRAFT again.
C16_PublishedNeverDraftAgain ==
  [][\A id \in TripIDs :
       trips[id].status = StatusPublished => trips'[id].status # StatusDraft]_vars
====
